---- MODULE Spec2Model ----
(***************************************************************************)
(* Recommendation inference engine of the movie recommender backend:      *)
(* the rating ledger (backend/database.py), the ranking and similarity    *)
(* engines (backend/model_inference_with_db.py, backend/model_inference.py)*)
(* the HTTP boundary (backend/main.py) and retraining                      *)
(* (backend/retrain_model.py, backend/schedule_retrain.py).                *)
(*                                                                         *)
(* Conventions.                                                            *)
(*  - Identifiers (user_id, movie_id) are strings in the code; here they   *)
(*    are small integers standing for distinct strings.                    *)
(*  - Inner ids of the trainset are 0-based in the code, 1-based here.     *)
(*  - A float is an exact fraction <<num, den>> in lowest terms, den > 0.  *)
(*    Ratings are whole stars (integers) and become fractions when the     *)
(*    code does arithmetic on them.                                        *)
(***************************************************************************)
EXTENDS Integers, Sequences, FiniteSets, TLC

VARIABLES
    ledger,       \* rows of table "ratings" (committed state of the database)
    now,          \* the wall clock read by datetime.utcnow()
    recommender,  \* main.py's global: None or the loaded MovieRecommenderDB
    sess,         \* per database session: the create_rating call in flight
    resp,         \* what the last operation returned to its caller
    disk,         \* the files under models/: the artifact and its backups
    retrain,      \* per process: the retrain_model call in flight
    users         \* rows of table "users"

vars == <<ledger, now, recommender, sess, resp, disk, retrain, users>>

----------------------------------------------------------------------------
(* Bounds of the exploration *)

MaxClock == 2      \* readings of the clock (so: stamped writes) per run
MaxN == 3          \* largest n asked of a top-n operation
MaxSubmits == 1    \* stamped writes per run of the HTTP boundary
TrainUsers == 50   \* users of the big training corpus

UserIds == {1, 101}        \* user 1 is in the big corpus, user 101 in none
MovieIds == {1, 2, 3}
Stars == {3, 4}            \* scores a caller submits (within [1.0, 5.0])
Ns == 1 .. MaxN
Sessions == {"s1", "s2"}
EmptyId == 0               \* the empty string "" as an identifier
RequestStars == {0, 1, 5, 6}   \* scores sent to the HTTP boundary

\* Python's None, where an object (a record here) may stand
None == [none |-> TRUE]

----------------------------------------------------------------------------
(* Float arithmetic on fractions *)

Abs(x) == IF x < 0 THEN -x ELSE x
Min(a, b) == IF a <= b THEN a ELSE b
Max(a, b) == IF a >= b THEN a ELSE b

RECURSIVE Gcd(_, _)
Gcd(a, b) == IF b = 0 THEN a ELSE Gcd(b, a % b)

\* float('nan'): what numpy gives for 0.0 / 0.0 (with a RuntimeWarning, no
\* exception); it propagates through arithmetic
NaN == <<0, 0>>
IsNaN(x) == x[2] = 0

\* n/d in lowest terms (d > 0); 0/0 is nan (n # 0 never meets d = 0 here)
Frac(n, d) ==
    IF d = 0 THEN NaN
    ELSE LET g == Gcd(Abs(n), d) IN <<n \div g, d \div g>>
FracOfInt(k) == <<k, 1>>
FracAdd(x, y) == Frac(x[1] * y[2] + y[1] * x[2], x[2] * y[2])
\* x < y and x == y on floats: false whenever an operand is nan
FracLess(x, y) == ~IsNaN(x) /\ ~IsNaN(y) /\ x[1] * y[2] < y[1] * x[2]
FracEq(x, y) == ~IsNaN(x) /\ ~IsNaN(y) /\ x = y

\* the sum of s[lo .. hi], added pairwise (as numpy's reduction does)
RECURSIVE FracSumRange(_, _, _)
FracSumRange(s, lo, hi) ==
    IF lo > hi THEN FracOfInt(0)
    ELSE IF lo = hi THEN s[lo]
    ELSE LET mid == (lo + hi) \div 2 IN
         FracAdd(FracSumRange(s, lo, mid), FracSumRange(s, mid + 1, hi))

FracSum(s) == FracSumRange(s, 1, Len(s))

\* np.mean of a non-empty list of floats
NpMean(s) == LET t == FracSum(s) IN Frac(t[1], t[2] * Len(s))

\* np.mean of a non-empty list of whole-star ratings
RECURSIVE StarSumRange(_, _, _)
StarSumRange(s, lo, hi) ==
    IF lo > hi THEN 0
    ELSE IF lo = hi THEN s[lo]
    ELSE LET mid == (lo + hi) \div 2 IN
         StarSumRange(s, lo, mid) + StarSumRange(s, mid + 1, hi)

MeanOfStars(s) == Frac(StarSumRange(s, 1, Len(s)), Len(s))

\* Python's s[:n]
PySlice(s, n) ==
    IF n >= 0 THEN SubSeq(s, 1, Min(n, Len(s)))
    ELSE SubSeq(s, 1, Max(0, Len(s) + n))

\* list.sort(key=lambda x: x[1], reverse=True) as CPython runs it on a list of
\* fewer than 64 entries: the list is reversed, sorted ascending (the run at
\* its head is found by count_run, the other entries are put in place by
\* binarysort) and reversed again. The only comparison made is "<" on the
\* keys. On keys that are totally ordered this is a stable descending sort.
Reverse(s) == [k \in 1 .. Len(s) |-> s[Len(s) + 1 - k]]

\* key(a) < key(b), the key being x[1] in the code and x[2] here
KeyLess(a, b) == FracLess(a[2], b[2])

\* count_run: the last index of the run that s[1], s[2] starts, s[k] being in it
RECURSIVE count_run(_, _, _)
count_run(s, k, descending) ==
    IF k = Len(s) THEN k
    ELSE IF descending = KeyLess(s[k + 1], s[k])
         THEN count_run(s, k + 1, descending)
    ELSE k

\* binarysort's search of the place of pivot among s[l+1 .. r]
RECURSIVE Bisect(_, _, _, _)
Bisect(s, pivot, l, r) ==
    IF l >= r THEN l
    ELSE LET p == l + (r - l) \div 2 IN
         IF KeyLess(pivot, s[p + 1]) THEN Bisect(s, pivot, l, p)
         ELSE Bisect(s, pivot, p + 1, r)

\* binarysort: s[1 .. i-1] is in place, s[i], s[i+1], ... are inserted in turn
RECURSIVE binarysort(_, _)
binarysort(s, i) ==
    IF i > Len(s) THEN s
    ELSE LET l == Bisect(s, s[i], 0, i - 1) IN
         binarysort(SubSeq(s, 1, l) \o <<s[i]>> \o SubSeq(s, l + 1, i - 1)
                        \o SubSeq(s, i + 1, Len(s)),
                    i + 1)

\* list.sort(key=...) ascending
ListSort(s) ==
    IF Len(s) < 2 THEN s
    ELSE LET descending == KeyLess(s[2], s[1])
             e == count_run(s, 2, descending)
         IN binarysort(IF descending
                       THEN Reverse(SubSeq(s, 1, e)) \o SubSeq(s, e + 1, Len(s))
                       ELSE s,
                       e + 1)

SortDesc(s) == Reverse(ListSort(Reverse(s)))

\* the elements of a sequence, as a set
Range(s) == {s[k] : k \in 1 .. Len(s)}

----------------------------------------------------------------------------
(* The rating ledger: backend/database.py *)

\* rows of the table for one (user, item) key
RowsOf(rows, user_id, movie_id) ==
    {r \in rows : r.user_id = user_id /\ r.movie_id = movie_id}

\* Query.first(): the row with the lowest rowid among the matches
First(rows) == CHOOSE r \in rows : \A q \in rows : r.id <= q.id

\* the rowid SQLite gives to an inserted row: one more than the largest in use
NextRowId(rows) ==
    IF rows = {} THEN 1
    ELSE (CHOOSE r \in rows : \A q \in rows : q.id <= r.id).id + 1

\* a table scan returns rows in rowid order
RECURSIVE InRowidOrder(_)
InRowidOrder(rows) ==
    IF rows = {} THEN <<>>
    ELSE LET r == First(rows) IN <<r>> \o InRowidOrder(rows \ {r})

\* the INSERT branch of create_rating, applied to the table
InsertNew(rows, user_id, movie_id, rating, timestamp) ==
    rows \cup {[id |-> NextRowId(rows), user_id |-> user_id,
                movie_id |-> movie_id, rating |-> rating,
                timestamp |-> timestamp]}

\* (a slip) the existing row is left alone and the new score goes in a new row
UpdateExistingAsInsert(rows, existing, rating, timestamp) ==
    InsertNew(rows, existing.user_id, existing.movie_id, rating, timestamp)

\* the UPDATE branch of create_rating, applied to the table
UpdateExisting(rows, existing, rating, timestamp) ==
    (rows \ {existing})
        \cup {[existing EXCEPT !.rating = rating, !.timestamp = timestamp]}

\* db.refresh(obj): the row read back by primary key
Refresh(rows, id) == CHOOSE r \in rows : r.id = id

\* RatingCRUD.create_rating, run alone: query, then update or insert, commit
CreateRating(user_id, movie_id, rating) ==
    /\ now < MaxClock
    /\ LET found == RowsOf(ledger, user_id, movie_id)
           id == IF found # {} THEN First(found).id ELSE NextRowId(ledger)
       IN /\ ledger' = IF found # {}
                       THEN UpdateExisting(ledger, First(found), rating, now)
                       ELSE InsertNew(ledger, user_id, movie_id, rating, now)
          /\ resp' = [op |-> "create_rating", user_id |-> user_id,
                      movie_id |-> movie_id, rating |-> rating,
                      existed |-> (found # {}),
                      result |-> Refresh(ledger', id)]
    /\ now' = now + 1
    /\ UNCHANGED <<recommender, sess, disk, retrain, users>>

\* (a slip) the filter on movie_id is lost: every row of the user goes
DeleteRatingWholeUser(user_id, movie_id) ==
    /\ LET found == RowsOf(ledger, user_id, movie_id) IN
       IF found # {}
       THEN /\ ledger' = {r \in ledger : r.user_id # user_id}
            /\ resp' = [op |-> "delete_rating", user_id |-> user_id,
                        movie_id |-> movie_id, result |-> TRUE]
       ELSE /\ ledger' = ledger
            /\ resp' = [op |-> "delete_rating", user_id |-> user_id,
                        movie_id |-> movie_id, result |-> FALSE]
    /\ UNCHANGED <<now, recommender, sess, disk, retrain, users>>

\* RatingCRUD.delete_rating, run alone
DeleteRating(user_id, movie_id) ==
    /\ LET found == RowsOf(ledger, user_id, movie_id) IN
       IF found # {}
       THEN /\ ledger' = ledger \ {First(found)}
            /\ resp' = [op |-> "delete_rating", user_id |-> user_id,
                        movie_id |-> movie_id, result |-> TRUE]
       ELSE /\ ledger' = ledger
            /\ resp' = [op |-> "delete_rating", user_id |-> user_id,
                        movie_id |-> movie_id, result |-> FALSE]
    /\ UNCHANGED <<now, recommender, sess, disk, retrain, users>>

\* RatingCRUD.create_rating as a function of the table: the table after the
\* call and the object returned
create_rating(rows, user_id, movie_id, rating, timestamp) ==
    LET found == RowsOf(rows, user_id, movie_id)
        id == IF found # {} THEN First(found).id ELSE NextRowId(rows)
        after == IF found # {}
                 THEN UpdateExisting(rows, First(found), rating, timestamp)
                 ELSE InsertNew(rows, user_id, movie_id, rating, timestamp)
    IN [rows |-> after, saved |-> Refresh(after, id)]

\* RatingCRUD.count_user_ratings
count_user_ratings(rows, user_id) ==
    Cardinality({r \in rows : r.user_id = user_id})

\* RatingCRUD.get_user_ratings: the user's rows, in rowid order
GetUserRatings(rows, user_id) ==
    InRowidOrder({r \in rows : r.user_id = user_id})

----------------------------------------------------------------------------
(* The Factor Model artifact: what _load_model reads from the pickle *)

\* Artifact of the large corpus: TrainUsers users, two items. Item 3 is rated
\* by every user, item 1 by every user but the first; item 2 is not in it.
Trainset1m ==
    [raw_uids |-> [k \in 1 .. TrainUsers |-> k],
     raw_iids |-> <<3, 1>>,
     ur |-> [k \in 1 .. TrainUsers |->
                IF k = 1 THEN << <<1, 4>> >>
                ELSE << <<2, 5>>, <<1, IF k % 2 = 0 THEN 5 ELSE 4>> >>]]

Svd1m ==
    [qi |-> << <<3, 4>>, <<4, 3>> >>,
     pu |-> [k \in 1 .. TrainUsers |-> IF k % 2 = 0 THEN <<0, 1>> ELSE <<1, 0>>],
     bu |-> [k \in 1 .. TrainUsers |-> 0],
     bi |-> <<0, 1>>]

\* Artifact of a small corpus: three users (user 1 among them), three items
\* stored in an order that is not the order of their identifiers.
TrainsetSmall ==
    [raw_uids |-> <<7, 1, 8>>,
     raw_iids |-> <<2, 3, 1>>,
     ur |-> << << <<1, 5>>, <<3, 3>> >>,
               << <<2, 4>>, <<1, 3>> >>,
               << <<3, 5>> >> >>]

SvdSmall ==
    [qi |-> << <<5, 0>>, <<3, 4>>, <<3, -4>> >>,
     pu |-> << <<1, 1>>, <<2, 0>>, <<0, 0>> >>,
     bu |-> <<0, 1, 0>>,
     bi |-> <<0, 0, 2>>]

\* trainset.global_mean: the mean of every rating of the corpus
RECURSIVE SumRatings(_)
SumRatings(pairs) ==
    IF pairs = <<>> THEN 0 ELSE Head(pairs)[2] + SumRatings(Tail(pairs))

\* <<sum, count>> of the ratings of users lo .. hi
RECURSIVE CorpusTotals(_, _, _)
CorpusTotals(ur, lo, hi) ==
    IF lo > hi THEN <<0, 0>>
    ELSE IF lo = hi THEN <<SumRatings(ur[lo]), Len(ur[lo])>>
    ELSE LET mid == (lo + hi) \div 2
             a == CorpusTotals(ur, lo, mid)
             b == CorpusTotals(ur, mid + 1, hi)
         IN <<a[1] + b[1], a[2] + b[2]>>

GlobalMean(trainset) ==
    LET t == CorpusTotals(trainset.ur, 1, Len(trainset.ur)) IN Frac(t[1], t[2])

\* the dict export_model pickles, as _load_model unpacks it into the object
Artifact(trainset, svd, titles) ==
    [model |-> svd,
     trainset |-> trainset,
     n_users |-> Len(trainset.raw_uids),
     n_items |-> Len(trainset.raw_iids),
     global_mean |-> GlobalMean(trainset),
     movie_id_to_title |-> titles]

\* data/movies.dat knows the titles of items 1 and 3
Catalog == [m \in {1, 3} |-> <<"Title", m>>]

Artifacts ==
    {Artifact(Trainset1m, Svd1m, Catalog),
     Artifact(TrainsetSmall, SvdSmall, Catalog)}

\* Artifact of a degenerate fit: the factors of the item stored first (item 2)
\* are the zero vector
TrainsetZero ==
    [raw_uids |-> <<1>>,
     raw_iids |-> <<2, 3, 1>>,
     ur |-> << << <<1, 4>>, <<2, 5>>, <<3, 3>> >> >>]

SvdZero ==
    [qi |-> << <<0, 0>>, <<3, 4>>, <<4, 3>> >>,
     pu |-> << <<1, 0>> >>,
     bu |-> <<0>>,
     bi |-> <<0, 0, 0>>]

\* the file train_model.py's export_model writes: the pickled dict has no
\* 'retrained_at' key, so model_data.get('retrained_at', None) is None
Pickle(artifact, retrained_at) ==
    [data |-> artifact, retrained_at |-> retrained_at]

\* the files under models/ before the first training
NoFiles == [model |-> None, backups |-> {}]

\* The first deployment: train_model.py exports the artifact, then main.py
\* load_model (startup) runs recommender = MovieRecommenderDB(...)
LoadModel ==
    /\ recommender = None
    /\ disk = NoFiles
    /\ \E a \in Artifacts :
          /\ disk' = [disk EXCEPT !.model = Pickle(a, None)]
          /\ recommender' = a
    /\ resp' = [op |-> "load_model"]
    /\ UNCHANGED <<ledger, now, sess, retrain, users>>

\* every artifact the recommender is loaded from here
AllArtifacts == Artifacts \cup {Artifact(TrainsetZero, SvdZero, Catalog)}

\* load_model when the pickle holds the degenerate fit
LoadDegenerateModel ==
    /\ recommender = None
    /\ disk = NoFiles
    /\ disk' = [disk EXCEPT
                  !.model = Pickle(Artifact(TrainsetZero, SvdZero, Catalog), None)]
    /\ recommender' = Artifact(TrainsetZero, SvdZero, Catalog)
    /\ resp' = [op |-> "load_model"]
    /\ UNCHANGED <<ledger, now, sess, retrain, users>>

----------------------------------------------------------------------------
(* The engines: backend/model_inference_with_db.py *)

\* trainset.knows_user / knows_item: to_inner_uid / to_inner_iid raise
\* ValueError exactly when these are false
KnowsUser(trainset, user_id) ==
    \E k \in 1 .. Len(trainset.raw_uids) : trainset.raw_uids[k] = user_id
KnowsItem(trainset, movie_id) ==
    \E k \in 1 .. Len(trainset.raw_iids) : trainset.raw_iids[k] = movie_id

to_inner_uid(trainset, user_id) ==
    CHOOSE k \in 1 .. Len(trainset.raw_uids) : trainset.raw_uids[k] = user_id
to_inner_iid(trainset, movie_id) ==
    CHOOSE k \in 1 .. Len(trainset.raw_iids) : trainset.raw_iids[k] = movie_id
to_raw_iid(trainset, iid) == trainset.raw_iids[iid]

Dot(a, b) == a[1] * b[1] + a[2] * b[2]

\* np.linalg.norm of a vector whose squared length is a perfect square
Norm(a) == CHOOSE r \in 0 .. Dot(a, a) : r * r = Dot(a, a)

\* get_movie_title
get_movie_title(rec, movie_id) ==
    IF movie_id \in DOMAIN rec.movie_id_to_title
    THEN rec.movie_id_to_title[movie_id]
    ELSE <<"Movie", movie_id>>

\* predict_rating: the SVD estimate, clipped to the rating scale [1, 5].
\* Biases are in tenths and a factor product in hundredths of a star.
predict_rating(rec, user_id, movie_id) ==
    LET ts == rec.trainset
        ku == KnowsUser(ts, user_id)
        ki == KnowsItem(ts, movie_id)
        u == to_inner_uid(ts, user_id)
        i == to_inner_iid(ts, movie_id)
        est == FracAdd(rec.global_mean,
                 FracAdd(Frac((IF ku THEN rec.model.bu[u] ELSE 0)
                               + (IF ki THEN rec.model.bi[i] ELSE 0), 10),
                         Frac(IF ku /\ ki
                              THEN Dot(rec.model.qi[i], rec.model.pu[u])
                              ELSE 0, 100)))
    IN IF FracLess(est, FracOfInt(1)) THEN FracOfInt(1)
       ELSE IF FracLess(FracOfInt(5), est) THEN FracOfInt(5)
       ELSE est

\* defaultdict(list)[key].append(val) on a dict kept as a sequence of
\* <<key, list>> in insertion order
DictAppend(d, key, val) ==
    IF \E k \in 1 .. Len(d) : d[k][1] = key
    THEN [k \in 1 .. Len(d) |->
            IF d[k][1] = key THEN <<key, Append(d[k][2], val)>> ELSE d[k]]
    ELSE Append(d, <<key, <<val>>>>)

\* d[key] = val on a dict kept as a sequence of <<key, val>>
DictPut(d, key, val) ==
    IF \E k \in 1 .. Len(d) : d[k][1] = key
    THEN [k \in 1 .. Len(d) |-> IF d[k][1] = key THEN <<key, val>> ELSE d[k]]
    ELSE Append(d, <<key, val>>)

DictKeys(d) == {d[k][1] : k \in 1 .. Len(d)}

\* the loop of get_similar_movies over iid in range(n_items), from iid on
RECURSIVE SimilarityScan(_, _, _, _)
SimilarityScan(rec, movie_inner_id, exclude_movie_ids, iid) ==
    IF iid > rec.n_items THEN <<>>
    ELSE LET rest == SimilarityScan(rec, movie_inner_id, exclude_movie_ids, iid + 1)
             other_movie_id == to_raw_iid(rec.trainset, iid)
             movie_factors == rec.model.qi[movie_inner_id]
             other_factors == rec.model.qi[iid]
             similarity == Frac(Dot(movie_factors, other_factors),
                                Norm(movie_factors) * Norm(other_factors))
         IN IF iid = movie_inner_id THEN rest
            ELSE IF other_movie_id \in exclude_movie_ids THEN rest
            ELSE << <<other_movie_id, similarity>> >> \o rest

\* (a slip) the exclude set is applied to the list already cut to n entries
get_similar_moviesExcludeAfterSlice(rec, movie_id, n, exclude_movie_ids) ==
    IF ~KnowsItem(rec.trainset, movie_id) THEN <<>>
    ELSE SelectSeq(PySlice(SortDesc(SimilarityScan(rec,
                       to_inner_iid(rec.trainset, movie_id), {}, 1)), n),
                   LAMBDA e : e[1] \notin exclude_movie_ids)

\* (a slip) no "except ValueError": the error of to_inner_iid reaches the caller
get_similar_moviesNoExcept(rec, movie_id, n, exclude_movie_ids) ==
    IF ~KnowsItem(rec.trainset, movie_id) THEN <<"ValueError">>
    ELSE PySlice(SortDesc(SimilarityScan(rec, to_inner_iid(rec.trainset, movie_id),
                                         exclude_movie_ids, 1)), n)

\* MovieRecommenderDB.get_similar_movies
get_similar_movies(rec, movie_id, n, exclude_movie_ids) ==
    IF ~KnowsItem(rec.trainset, movie_id) THEN <<>>    \* except ValueError
    ELSE PySlice(SortDesc(SimilarityScan(rec, to_inner_iid(rec.trainset, movie_id),
                                         exclude_movie_ids, 1)), n)

\* MovieRecommender.get_similar_movies (model_inference.py): no exclude set
inference_get_similar_movies(rec, movie_id, n) ==
    IF ~KnowsItem(rec.trainset, movie_id) THEN <<>>    \* except ValueError
    ELSE PySlice(SortDesc(SimilarityScan(rec, to_inner_iid(rec.trainset, movie_id),
                                         {}, 1)), n)

\* the two loops of get_popular_movies that fill movie_ratings
RECURSIVE CollectUser(_, _, _)
CollectUser(trainset, pairs, movie_ratings) ==
    IF pairs = <<>> THEN movie_ratings
    ELSE CollectUser(trainset, Tail(pairs),
                     DictAppend(movie_ratings,
                                to_raw_iid(trainset, Head(pairs)[1]),
                                Head(pairs)[2]))

\* movie_ratings after one run of the loops followed by another: the keys of
\* the first, then the new keys of the second, each list extended
RECURSIVE DictExtend(_, _)
DictExtend(d, more) ==
    IF more = <<>> THEN d
    ELSE LET key == Head(more)[1]
             vals == Head(more)[2]
         IN DictExtend(
              IF \E k \in 1 .. Len(d) : d[k][1] = key
              THEN [k \in 1 .. Len(d) |->
                      IF d[k][1] = key THEN <<key, d[k][2] \o vals>> ELSE d[k]]
              ELSE Append(d, <<key, vals>>),
              Tail(more))

\* movie_ratings after the outer loop has run over users lo .. hi
RECURSIVE CollectRatings(_, _, _)
CollectRatings(rec, lo, hi) ==
    IF lo > hi THEN <<>>
    ELSE IF lo = hi THEN CollectUser(rec.trainset, rec.trainset.ur[lo], <<>>)
    ELSE LET mid == (lo + hi) \div 2 IN
         DictExtend(CollectRatings(rec, lo, mid), CollectRatings(rec, mid + 1, hi))

\* (a slip) an item one rating short of the threshold is let through
RECURSIVE PopularFilterOneShort(_, _)
PopularFilterOneShort(movie_ratings, min_ratings) ==
    IF movie_ratings = <<>> THEN <<>>
    ELSE LET e == Head(movie_ratings)
             rest == PopularFilterOneShort(Tail(movie_ratings), min_ratings)
         IN IF Len(e[2]) >= min_ratings - 1
            THEN << <<e[1], MeanOfStars(e[2])>> >> \o rest
            ELSE rest

\* the filter of get_popular_movies: items with enough ratings, with their mean
RECURSIVE PopularFilter(_, _)
PopularFilter(movie_ratings, min_ratings) ==
    IF movie_ratings = <<>> THEN <<>>
    ELSE LET e == Head(movie_ratings)
             rest == PopularFilter(Tail(movie_ratings), min_ratings)
         IN IF Len(e[2]) >= min_ratings
            THEN << <<e[1], MeanOfStars(e[2])>> >> \o rest
            ELSE rest

\* movie_ratings as the two loops leave it. They read self.trainset and
\* nothing else, so the dict is tabulated once per artifact.
movie_ratings ==
    [rec \in AllArtifacts |-> CollectRatings(rec, 1, rec.n_users)]

\* (a slip) the ratings of the ledger are counted with those of the corpus
get_popular_moviesWithLedger(rec, n, min_ratings) ==
    LET rowseq == InRowidOrder(ledger)
        live == [k \in 1 .. Len(rowseq) |->
                    <<rowseq[k].movie_id, <<rowseq[k].rating>>>>]
    IN PySlice(SortDesc(PopularFilter(DictExtend(movie_ratings[rec], live),
                                      min_ratings)), n)

\* MovieRecommenderDB.get_popular_movies
get_popular_movies(rec, n, min_ratings) ==
    PySlice(SortDesc(PopularFilter(movie_ratings[rec], min_ratings)), n)

\* the default of get_popular_movies' min_ratings
DefaultMinRatings == 50
\* how many similar items get_recommendations_from_db asks for per liked item
SimilarPerLiked == 20

\* get_user_ratings_from_db: {r.movie_id: r.rating for r in ratings}
RECURSIVE RatingsDict(_, _)
RatingsDict(rowseq, d) ==
    IF rowseq = <<>> THEN d
    ELSE RatingsDict(Tail(rowseq),
                     DictPut(d, Head(rowseq).movie_id, Head(rowseq).rating))

get_user_ratings_from_db(rows, user_id) ==
    RatingsDict(GetUserRatings(rows, user_id), <<>>)

\* (a slip) the history test looks at the whole table, not at the user's rows
RegimeAnyHistory(rows, rec, user_id, use_hybrid) ==
    IF KnowsUser(rec.trainset, user_id) THEN "KNOWN"
    ELSE IF Cardinality(rows) > 0 /\ use_hybrid THEN "COLD_WITH_HISTORY"
    ELSE "COLD_NO_HISTORY"

\* the branch get_recommendations_from_db takes (CASO 1, 2, 3)
Regime(rows, rec, user_id, use_hybrid) ==
    IF KnowsUser(rec.trainset, user_id) THEN "KNOWN"
    ELSE IF Len(get_user_ratings_from_db(rows, user_id)) > 0 /\ use_hybrid
         THEN "COLD_WITH_HISTORY"
    ELSE "COLD_NO_HISTORY"

\* (a slip) CASO 1 without the filter on rated_movie_ids
RECURSIVE PredictAllKeepRated(_, _, _, _, _)
PredictAllKeepRated(rec, user_id, rated_movie_ids, exclude_rated, iid) ==
    IF iid > rec.n_items THEN <<>>
    ELSE LET movie_id == to_raw_iid(rec.trainset, iid) IN
         << <<movie_id, predict_rating(rec, user_id, movie_id),
              get_movie_title(rec, movie_id)>> >>
         \o PredictAllKeepRated(rec, user_id, rated_movie_ids, exclude_rated, iid + 1)

\* CASO 1, the loop over candidate_movies, from inner id iid on
RECURSIVE PredictAll(_, _, _, _, _)
PredictAll(rec, user_id, rated_movie_ids, exclude_rated, iid) ==
    IF iid > rec.n_items THEN <<>>
    ELSE LET movie_id == to_raw_iid(rec.trainset, iid)
             rest == PredictAll(rec, user_id, rated_movie_ids, exclude_rated, iid + 1)
         IN IF exclude_rated /\ movie_id \in rated_movie_ids THEN rest
            ELSE << <<movie_id, predict_rating(rec, user_id, movie_id),
                      get_movie_title(rec, movie_id)>> >> \o rest

KnownRecommendations(rows, rec, user_id, n, exclude_rated) ==
    PySlice(SortDesc(PredictAll(rec, user_id,
                                DictKeys(get_user_ratings_from_db(rows, user_id)),
                                exclude_rated, 1)), n)

\* CASO 2, inner loop: for sim_movie_id, similarity in similar_movies
RECURSIVE AppendSimilar(_, _, _, _)
AppendSimilar(similar_movies, rating, rated_movie_ids, recommendations) ==
    IF similar_movies = <<>> THEN recommendations
    ELSE LET sim_movie_id == Head(similar_movies)[1]
             similarity == Head(similar_movies)[2]
             score == Frac(rating * similarity[1], similarity[2])
         IN AppendSimilar(Tail(similar_movies), rating, rated_movie_ids,
                          IF sim_movie_id \notin rated_movie_ids
                          THEN DictAppend(recommendations, sim_movie_id, score)
                          ELSE recommendations)

\* (a slip) "if rating >= 4.0" is lost: every rated item spreads its score
RECURSIVE SimilarityPassAnyRating(_, _, _, _)
SimilarityPassAnyRating(rec, items, rated_movie_ids, recommendations) ==
    IF items = <<>> THEN recommendations
    ELSE LET movie_id == Head(items)[1]
             rating == Head(items)[2]
         IN SimilarityPassAnyRating(rec, Tail(items), rated_movie_ids,
              AppendSimilar(get_similar_movies(rec, movie_id, SimilarPerLiked, {}),
                            rating, rated_movie_ids, recommendations))

\* CASO 2, outer loop: for movie_id, rating in user_ratings_db.items()
RECURSIVE SimilarityPass(_, _, _, _)
SimilarityPass(rec, items, rated_movie_ids, recommendations) ==
    IF items = <<>> THEN recommendations
    ELSE LET movie_id == Head(items)[1]
             rating == Head(items)[2]
         IN SimilarityPass(rec, Tail(items), rated_movie_ids,
              IF rating >= 4
              THEN AppendSimilar(get_similar_movies(rec, movie_id, SimilarPerLiked, {}),
                                 rating, rated_movie_ids, recommendations)
              ELSE recommendations)

\* [(movie_id, avg_rating, title) for movie_id, avg_rating in popular]
WithTitles(rec, popular) ==
    [k \in 1 .. Len(popular) |->
        <<popular[k][1], popular[k][2], get_movie_title(rec, popular[k][1])>>]

\* (a slip) the popular list is asked for with a threshold of one rating
PopularRecommendationsAnyCount(rec, n) ==
    WithTitles(rec, get_popular_movies(rec, n, 1))

\* CASO 3 and the fallback of CASO 2
PopularRecommendations(rec, n) ==
    WithTitles(rec, get_popular_movies(rec, n, DefaultMinRatings))

\* (a slip) CASO 2 without "if not recommendations": an empty list is returned
ColdRecommendationsNoFallback(rows, rec, user_id, n) ==
    LET user_ratings_db == get_user_ratings_from_db(rows, user_id)
        recommendations ==
            SimilarityPass(rec, user_ratings_db, DictKeys(user_ratings_db), <<>>)
        final_recommendations ==
            [k \in 1 .. Len(recommendations) |->
                <<recommendations[k][1], NpMean(recommendations[k][2]),
                  get_movie_title(rec, recommendations[k][1])>>]
    IN PySlice(SortDesc(final_recommendations), n)

\* CASO 2
ColdRecommendations(rows, rec, user_id, n) ==
    LET user_ratings_db == get_user_ratings_from_db(rows, user_id)
        recommendations ==
            SimilarityPass(rec, user_ratings_db, DictKeys(user_ratings_db), <<>>)
        final_recommendations ==
            [k \in 1 .. Len(recommendations) |->
                <<recommendations[k][1], NpMean(recommendations[k][2]),
                  get_movie_title(rec, recommendations[k][1])>>]
    IN IF recommendations = <<>> THEN PopularRecommendations(rec, n)
       ELSE PySlice(SortDesc(final_recommendations), n)

\* MovieRecommenderDB.get_recommendations_from_db
get_recommendations_from_db(rows, rec, user_id, n, exclude_rated, use_hybrid) ==
    LET regime == Regime(rows, rec, user_id, use_hybrid) IN
    IF regime = "KNOWN"
    THEN KnownRecommendations(rows, rec, user_id, n, exclude_rated)
    ELSE IF regime = "COLD_WITH_HISTORY"
    THEN ColdRecommendations(rows, rec, user_id, n)
    ELSE PopularRecommendations(rec, n)

\* a caller of get_recommendations_from_db on the loaded recommender
GetRecommendationsFromDb(user_id, n, exclude_rated, use_hybrid) ==
    /\ recommender # None
    /\ resp' = [op |-> "get_recommendations_from_db",
                user_id |-> user_id, n |-> n,
                exclude_rated |-> exclude_rated, use_hybrid |-> use_hybrid,
                regime |-> Regime(ledger, recommender, user_id, use_hybrid),
                result |-> get_recommendations_from_db(ledger, recommender,
                               user_id, n, exclude_rated, use_hybrid)]
    /\ UNCHANGED <<ledger, now, recommender, sess, disk, retrain, users>>

\* MovieRecommender.get_top_n_recommendations (model_inference.py): the
\* items the user rated in the trainset are left out, nothing is read from
\* the ledger; the result is a list of (movie_id, predicted rating)
get_top_n_recommendations(rec, user_id, n, exclude_rated) ==
    LET rated_movies ==
            IF exclude_rated /\ KnowsUser(rec.trainset, user_id)
            THEN {to_raw_iid(rec.trainset, pair[1]) :
                    pair \in Range(rec.trainset.ur[to_inner_uid(rec.trainset,
                                                                user_id)])}
            ELSE {}                                  \* except ValueError
        kept(mid) == mid \notin rated_movies
        all_movie_ids == SelectSeq(rec.trainset.raw_iids, kept)
        predictions ==
            [k \in 1 .. Len(all_movie_ids) |->
                <<all_movie_ids[k],
                  predict_rating(rec, user_id, all_movie_ids[k])>>]
    IN PySlice(SortDesc(predictions), n)

\* a caller of get_top_n_recommendations on the loaded model
GetTopNRecommendations(user_id, n, exclude_rated) ==
    /\ recommender # None
    /\ resp' = [op |-> "get_top_n_recommendations",
                user_id |-> user_id, n |-> n, exclude_rated |-> exclude_rated,
                result |-> get_top_n_recommendations(recommender, user_id, n,
                                                     exclude_rated)]
    /\ UNCHANGED <<ledger, now, recommender, sess, disk, retrain, users>>

\* MovieRecommender.get_recommendations_for_new_user (model_inference.py),
\* the loop over rated_movies.items()
RECURSIVE NewUserPass(_, _, _, _)
NewUserPass(rec, items, rated_movies, recommendations) ==
    IF items = <<>> THEN recommendations
    ELSE LET movie_id == Head(items)[1]
             rating == Head(items)[2]
         IN NewUserPass(rec, Tail(items), rated_movies,
              IF rating >= 4
              THEN AppendSimilar(inference_get_similar_movies(rec, movie_id,
                                                              SimilarPerLiked),
                                 rating, DictKeys(rated_movies), recommendations)
              ELSE recommendations)

\* MovieRecommender.get_recommendations_for_new_user: rated_movies is a dict
\* {movie_id: rating}; the result is a list of (movie_id, score)
get_recommendations_for_new_user(rec, rated_movies, n) ==
    LET recommendations == NewUserPass(rec, rated_movies, rated_movies, <<>>)
        final_recommendations ==
            [k \in 1 .. Len(recommendations) |->
                <<recommendations[k][1], NpMean(recommendations[k][2])>>]
    IN PySlice(SortDesc(final_recommendations), n)

\* a caller of get_recommendations_for_new_user that passes the ratings the
\* ledger holds for a user the model does not know
GetRecommendationsForNewUser(user_id, n) ==
    /\ recommender # None
    /\ ~KnowsUser(recommender.trainset, user_id)
    /\ get_user_ratings_from_db(ledger, user_id) # <<>>
    /\ resp' = [op |-> "get_recommendations_for_new_user",
                user_id |-> user_id, n |-> n,
                rated_movies |-> get_user_ratings_from_db(ledger, user_id),
                result |-> get_recommendations_for_new_user(recommender,
                              get_user_ratings_from_db(ledger, user_id), n)]
    /\ UNCHANGED <<ledger, now, recommender, sess, disk, retrain, users>>

\* a caller of MovieRecommenderDB.get_similar_movies on the loaded recommender
CallGetSimilarMovies(movie_id, n, exclude_movie_ids) ==
    /\ recommender # None
    /\ resp' = [op |-> "get_similar_movies", movie_id |-> movie_id, n |-> n,
                exclude_movie_ids |-> exclude_movie_ids,
                result |-> get_similar_movies(recommender, movie_id, n,
                                              exclude_movie_ids)]
    /\ UNCHANGED <<ledger, now, recommender, sess, disk, retrain, users>>

\* a caller of get_popular_movies on the loaded recommender
GetPopularMovies(n, min_ratings) ==
    /\ recommender # None
    /\ resp' = [op |-> "get_popular_movies", n |-> n, min_ratings |-> min_ratings,
                result |-> get_popular_movies(recommender, n, min_ratings)]
    /\ UNCHANGED <<ledger, now, recommender, sess, disk, retrain, users>>

\* a caller of MovieRecommender.get_similar_movies on the same artifact
CallInferenceGetSimilarMovies(movie_id, n) ==
    /\ recommender # None
    /\ resp' = [op |-> "MovieRecommender.get_similar_movies",
                movie_id |-> movie_id, n |-> n, exclude_movie_ids |-> {},
                result |-> inference_get_similar_movies(recommender, movie_id, n)]
    /\ UNCHANGED <<ledger, now, recommender, sess, disk, retrain, users>>

----------------------------------------------------------------------------
(* The HTTP boundary: backend/main.py *)

\* round(x, 3): the nearest thousandth, a tie going to the even one; nan for nan
Round3(x) ==
    IF IsNaN(x) THEN NaN
    ELSE LET q == (x[1] * 1000) \div x[2]
             rem == (x[1] * 1000) % x[2]
             up == 2 * rem > x[2] \/ (2 * rem = x[2] /\ q % 2 = 1)
         IN Frac(IF up THEN q + 1 ELSE q, 1000)

\* POST /similar-movies. Nothing in the try block raises, so the handler's
\* "except Exception" (status 400) is never entered. A nan among the scores
\* passes the response model and fails when the response is rendered as JSON
\* (json.dumps with allow_nan=False), after the handler has returned: 500.
SimilarMoviesEndpoint(movie_id, n) ==
    /\ IF recommender = None
       THEN resp' = [op |-> "POST /similar-movies", movie_id |-> movie_id,
                     status |-> 503, detail |-> "Modelo no disponible"]
       ELSE LET similar == get_similar_movies(recommender, movie_id, n, {}) IN
            IF \E k \in 1 .. Len(similar) : IsNaN(similar[k][2])
            THEN resp' = [op |-> "POST /similar-movies", movie_id |-> movie_id,
                          status |-> 500, detail |-> "Internal Server Error"]
            ELSE
            resp' = [op |-> "POST /similar-movies", movie_id |-> movie_id,
                     status |-> 200,
                     body |-> [reference_movie_id |-> movie_id,
                               reference_movie_title |->
                                   get_movie_title(recommender, movie_id),
                               similar_movies |->
                                   [k \in 1 .. Len(similar) |->
                                       [movie_id |-> similar[k][1],
                                        title |-> get_movie_title(recommender,
                                                                  similar[k][1]),
                                        similarity_score |-> Round3(similar[k][2])]],
                               count |-> Len(similar)]]
    /\ UNCHANGED <<ledger, now, recommender, sess, disk, retrain, users>>

\* the constraints of the request models on a count: Field(10, ge=1, le=50)
MaxRequestN == 50
ValidCount(n) == 1 <= n /\ n <= MaxRequestN
\* PopularMoviesRequest.min_ratings: Field(50, ge=1)
ValidMinRatings(min_ratings) == min_ratings >= 1

\* what FastAPI answers when the request body fails its model: the handler
\* is not entered
Unprocessable(op) ==
    [op |-> op, status |-> 422, detail |-> "validation error"]
\* raise HTTPException(status_code=503, ...) at the head of a handler
NotReady(op, detail) == [op |-> op, status |-> 503, detail |-> detail]

\* POST /movies/popular
PopularMoviesEndpoint(n, min_ratings) ==
    /\ IF ~(ValidCount(n) /\ ValidMinRatings(min_ratings))
       THEN resp' = Unprocessable("POST /movies/popular")
       ELSE IF recommender = None
       THEN resp' = NotReady("POST /movies/popular", "Modelo no disponible")
       ELSE LET popular == get_popular_movies(recommender, n, min_ratings) IN
            resp' = [op |-> "POST /movies/popular", status |-> 200,
                     n |-> n, min_ratings |-> min_ratings,
                     body |-> [movies |->
                                  [k \in 1 .. Len(popular) |->
                                      [movie_id |-> popular[k][1],
                                       title |-> get_movie_title(recommender,
                                                                 popular[k][1]),
                                       average_rating |-> Round3(popular[k][2]),
                                       rank |-> k]],
                               count |-> Len(popular)]]
    /\ UNCHANGED <<ledger, now, recommender, sess, disk, retrain, users>>

\* AddRatingRequest.rating: Field(..., ge=1.0, le=5.0)
ValidRatingNoUpper(rating) == rating >= 1      \* (a slip) "le" left out
ValidRating(rating) == rating >= 1 /\ rating <= 5

\* n_recommendations passed by POST /ratings/add
AddRatingN == 10

\* the "recommendations" list of a response body
RecommendationItems(recommendations) ==
    [k \in 1 .. Len(recommendations) |->
        [movie_id |-> recommendations[k][1],
         predicted_rating |-> Round3(recommendations[k][2]),
         title |-> recommendations[k][3],
         rank |-> k]]

\* MovieRecommenderDB.add_rating_and_get_recommendations: the table after the
\* call and the dict returned
add_rating_and_get_recommendations(rows, rec, user_id, movie_id, rating, n_recommendations, timestamp) ==
    LET created == create_rating(rows, user_id, movie_id, rating, timestamp)
        recommendations ==
            get_recommendations_from_db(created.rows, rec, user_id,
                                        n_recommendations, TRUE, TRUE)
        total_ratings == count_user_ratings(created.rows, user_id)
    IN [rows |-> created.rows,
        result |-> [rating_saved |->
                        [user_id |-> user_id, movie_id |-> movie_id,
                         rating |-> rating,
                         movie_title |-> get_movie_title(rec, movie_id),
                         timestamp |-> created.saved.timestamp],
                    user_stats |-> [total_ratings |-> total_ratings,
                                    user_id |-> user_id],
                    recommendations |-> RecommendationItems(recommendations)]]

\* (a slip) the rating is stored before the handler looks at the recommender
AddRatingEndpointStoreFirst(user_id, movie_id, rating) ==
    /\ now < MaxSubmits
    /\ ledger' = create_rating(ledger, user_id, movie_id, rating, now).rows
    /\ now' = now + 1
    /\ resp' = [op |-> "POST /ratings/add", user_id |-> user_id,
                movie_id |-> movie_id, rating |-> rating,
                status |-> IF recommender = None THEN 503 ELSE 200]
    /\ UNCHANGED <<recommender, sess, disk, retrain, users>>

\* POST /ratings/add
AddRatingEndpoint(user_id, movie_id, rating) ==
    /\ IF ~ValidRating(rating)
       THEN /\ resp' = [op |-> "POST /ratings/add", user_id |-> user_id,
                        movie_id |-> movie_id, rating |-> rating,
                        status |-> 422, detail |-> "validation error"]
            /\ UNCHANGED <<ledger, now, disk, retrain, users>>
       ELSE IF recommender = None
       THEN /\ resp' = [op |-> "POST /ratings/add", user_id |-> user_id,
                        movie_id |-> movie_id, rating |-> rating,
                        status |-> 503, detail |-> "Modelo no disponible"]
            /\ UNCHANGED <<ledger, now, disk, retrain, users>>
       ELSE /\ now < MaxSubmits
            /\ LET done == add_rating_and_get_recommendations(ledger,
                               recommender, user_id, movie_id, rating,
                               AddRatingN, now)
               IN /\ ledger' = done.rows
                  /\ resp' = [op |-> "POST /ratings/add", user_id |-> user_id,
                              movie_id |-> movie_id, rating |-> rating,
                              status |-> 200, body |-> done.result]
            /\ now' = now + 1
    /\ UNCHANGED <<recommender, sess, disk, retrain, users>>

\* GET /ratings/user/{user_id}
UserHistoryEndpoint(user_id) ==
    /\ IF recommender = None
       THEN resp' = [op |-> "GET /ratings/user", user_id |-> user_id,
                     status |-> 503, detail |-> "Modelo no disponible"]
       ELSE LET ratings == GetUserRatings(ledger, user_id) IN
            resp' = [op |-> "GET /ratings/user", user_id |-> user_id,
                     status |-> 200,
                     body |-> [user_id |-> user_id,
                               total_ratings |-> Len(ratings),
                               ratings |->
                                   [k \in 1 .. Len(ratings) |->
                                       [movie_id |-> ratings[k].movie_id,
                                        title |-> get_movie_title(recommender,
                                                      ratings[k].movie_id),
                                        rating |-> ratings[k].rating,
                                        timestamp |-> ratings[k].timestamp]]]]
    /\ UNCHANGED <<ledger, now, recommender, sess, disk, retrain, users>>

\* POST /recommendations/from-db. RecommendationsRequest.user_id is any string.
RecommendationsEndpoint(user_id, n) ==
    /\ IF ~ValidCount(n)
       THEN resp' = [op |-> "POST /recommendations/from-db",
                     user_id |-> user_id, n |-> n,
                     status |-> 422, detail |-> "validation error"]
       ELSE IF recommender = None
       THEN resp' = [op |-> "POST /recommendations/from-db",
                     user_id |-> user_id, n |-> n,
                     status |-> 503, detail |-> "Modelo no disponible"]
       ELSE LET recommendations ==
                    get_recommendations_from_db(ledger, recommender, user_id,
                                                n, TRUE, TRUE)
            IN resp' = [op |-> "POST /recommendations/from-db",
                        user_id |-> user_id, n |-> n, status |-> 200,
                        body |-> [user_id |-> user_id,
                                  recommendations |->
                                      RecommendationItems(recommendations),
                                  count |-> Len(recommendations)]]
    /\ UNCHANGED <<ledger, now, recommender, sess, disk, retrain, users>>

\* POST /predict
PredictEndpoint(user_id, movie_id) ==
    /\ IF recommender = None
       THEN resp' = [op |-> "POST /predict", user_id |-> user_id,
                     movie_id |-> movie_id,
                     status |-> 503, detail |-> "Modelo no disponible"]
       ELSE resp' = [op |-> "POST /predict", user_id |-> user_id,
                     movie_id |-> movie_id, status |-> 200,
                     body |-> [user_id |-> user_id, movie_id |-> movie_id,
                               movie_title |->
                                   get_movie_title(recommender, movie_id),
                               predicted_rating |->
                                   Round3(predict_rating(recommender, user_id,
                                                         movie_id))]]
    /\ UNCHANGED <<ledger, now, recommender, sess, disk, retrain, users>>

\* GET /health
HealthEndpoint ==
    /\ IF recommender = None
       THEN resp' = [op |-> "GET /health", status |-> 503,
                     detail |-> "Modelo no cargado"]
       ELSE resp' = [op |-> "GET /health", status |-> 200,
                     body |-> [status |-> "healthy", model_loaded |-> TRUE,
                               database_connected |-> TRUE,
                               total_ratings_in_db |-> Cardinality(ledger),
                               n_users |-> recommender.n_users,
                               n_items |-> recommender.n_items,
                               global_mean |-> Round3(recommender.global_mean)]]
    /\ UNCHANGED <<ledger, now, recommender, sess, disk, retrain, users>>

----------------------------------------------------------------------------
(* RatingCRUD.create_rating in concurrent sessions: the existence query and *)
(* the commit of each call are separate steps                              *)

\* a session with no call in flight
Idle == [pc |-> "idle"]

\* calls that have run their query, found nothing and will stamp on commit
WaitingInsert == Cardinality({s \in Sessions : sess[s].pc = "insert"})

\* the query of create_rating in session s; when a row is found the new score
\* and utcnow() are assigned to the loaded object, in the session only
CreateRatingQuery(s, user_id, movie_id, rating) ==
    /\ sess[s].pc = "idle"
    /\ now + WaitingInsert < MaxClock
    /\ LET found == RowsOf(ledger, user_id, movie_id) IN
       IF found # {}
       THEN /\ sess' = [sess EXCEPT ![s] =
                          [pc |-> "update", user_id |-> user_id,
                           movie_id |-> movie_id, rating |-> rating,
                           existing |-> First(found), timestamp |-> now]]
            /\ now' = now + 1
       ELSE /\ sess' = [sess EXCEPT ![s] =
                          [pc |-> "insert", user_id |-> user_id,
                           movie_id |-> movie_id, rating |-> rating]]
            /\ now' = now
    /\ resp' = [op |-> "query"]
    /\ UNCHANGED <<ledger, recommender, disk, retrain, users>>

\* db.commit() of the update branch: UPDATE ... WHERE id = existing.id
CommitUpdate(s) ==
    /\ sess[s].pc = "update"
    /\ LET c == sess[s]
           target == {r \in ledger : r.id = c.existing.id}
       IN /\ target # {}
          /\ ledger' = UpdateExisting(ledger, First(target), c.rating, c.timestamp)
          /\ resp' = [op |-> "create_rating", user_id |-> c.user_id,
                      movie_id |-> c.movie_id, rating |-> c.rating,
                      existed |-> TRUE,
                      result |-> Refresh(ledger', c.existing.id)]
    /\ sess' = [sess EXCEPT ![s] = Idle]
    /\ UNCHANGED <<now, recommender, disk, retrain, users>>

\* db.add(new_rating); db.commit() of the insert branch: INSERT, with the
\* column default utcnow() evaluated now
CommitInsert(s) ==
    /\ sess[s].pc = "insert"
    /\ LET c == sess[s] IN
          /\ ledger' = InsertNew(ledger, c.user_id, c.movie_id, c.rating, now)
          /\ resp' = [op |-> "create_rating", user_id |-> c.user_id,
                      movie_id |-> c.movie_id, rating |-> c.rating,
                      existed |-> FALSE,
                      result |-> Refresh(ledger', NextRowId(ledger))]
    /\ now' = now + 1
    /\ sess' = [sess EXCEPT ![s] = Idle]
    /\ UNCHANGED <<recommender, disk, retrain, users>>

----------------------------------------------------------------------------
(* Retraining: backend/retrain_model.py, backend/schedule_retrain.py and   *)
(* POST /admin/retrain of backend/main.py                                  *)

\* the processes that run retrain_model: the server, inside the handler
\* of POST /admin/retrain, and the scheduler of schedule_retrain.py
Processes == {"server", "scheduler"}

\* no retrain_model call in flight
NotRunning ==
    [pc |-> "idle", corpus |-> <<>>, fitted |-> None, backup_path |-> None,
     retrained_at |-> None]

\* the file between open(filepath, 'wb') and the end of pickle.dump:
\* pickle.load of it raises
Truncated == [truncated |-> TRUE]

\* datetime.isoformat() of a clock reading, and datetime.fromisoformat of it
isoformat(t) == [iso |-> t]
fromisoformat(text) == text.iso

\* hours by which datetime.now() is ahead of datetime.utcnow() on the host
UtcOffsets == {0, 1}

\* (a slip) the threshold is always held against the whole table
check_retrain_neededTotal(rows, files, min_new_ratings) ==
    Cardinality(rows) >= min_new_ratings

\* check_retrain_needed, for an artifact file that is absent or loads
check_retrain_needed(rows, files, min_new_ratings) ==
    LET total_ratings == Cardinality(rows)
        model_data == files.model
        last_retrain == model_data.retrained_at
        last_retrain_dt == fromisoformat(last_retrain)
        new_ratings == Cardinality({r \in rows : r.timestamp > last_retrain_dt})
    IN IF files.model # None /\ last_retrain # None
       THEN new_ratings >= min_new_ratings
       ELSE total_ratings >= min_new_ratings

\* Dataset.load_builtin('ml-1m').raw_ratings: <<user, item, rating>> lines
\* of the corpus the small artifact was trained on
load_original_movielens_data ==
    << <<7, 2, 5>>, <<7, 1, 3>>, <<1, 3, 4>>, <<1, 2, 3>>, <<8, 1, 5>> >>

\* ModelRetrainer.load_database_ratings: every row of the table, as tuples
load_database_ratings(rows) ==
    LET db_ratings == InRowidOrder(rows)
    IN [k \in 1 .. Len(db_ratings) |->
           <<db_ratings[k].user_id, db_ratings[k].movie_id, db_ratings[k].rating>>]

\* ModelRetrainer.combine_datasets: the table's rows go after the corpus
combine_datasets(original_ratings, db_ratings) ==
    IF db_ratings = <<>> THEN original_ratings
    ELSE original_ratings \o db_ratings

\* the orders rng.permutation puts k ratings in, of which two are followed
Shuffles == {"identity", "reversed"}
Permuted(data, shuffle) ==
    IF shuffle = "identity" THEN data ELSE Reverse(data)

\* train_test_split(data, test_size=0.2): the first ceil(0.2 * k) ratings
\* of the permutation are the test set, the others the training set
train_test_split(data, shuffle) ==
    LET k == Len(data)
        test_size == (2 * k + 9) \div 10
        permutation == Permuted(data, shuffle)
    IN [trainset |-> SubSeq(permutation, test_size + 1, k),
        testset |-> SubSeq(permutation, 1, test_size)]

\* Dataset.construct_trainset: inner ids in order of first appearance
RECURSIVE construct_trainset(_, _)
construct_trainset(raw_trainset, built) ==
    IF raw_trainset = <<>> THEN built
    ELSE LET urid == Head(raw_trainset)[1]
             irid == Head(raw_trainset)[2]
             r == Head(raw_trainset)[3]
             raw_uids == IF KnowsUser(built, urid) THEN built.raw_uids
                         ELSE Append(built.raw_uids, urid)
             raw_iids == IF KnowsItem(built, irid) THEN built.raw_iids
                         ELSE Append(built.raw_iids, irid)
             ur == IF KnowsUser(built, urid) THEN built.ur
                   ELSE Append(built.ur, <<>>)
             uid == CHOOSE k \in 1 .. Len(raw_uids) : raw_uids[k] = urid
             iid == CHOOSE k \in 1 .. Len(raw_iids) : raw_iids[k] = irid
         IN construct_trainset(Tail(raw_trainset),
               [raw_uids |-> raw_uids, raw_iids |-> raw_iids,
                ur |-> [ur EXCEPT ![uid] = Append(ur[uid], <<iid, r>>)]])

\* SVD.fit: the factors and biases it learns are not computed here; every
\* fit gives item factors of length 5 and zero biases
fit(trainset) ==
    [qi |-> [i \in 1 .. Len(trainset.raw_iids) |->
                IF i % 2 = 1 THEN <<3, 4>> ELSE <<4, 3>>],
     pu |-> [u \in 1 .. Len(trainset.raw_uids) |-> <<1, 0>>],
     bu |-> [u \in 1 .. Len(trainset.raw_uids) |-> 0],
     bi |-> [i \in 1 .. Len(trainset.raw_iids) |-> 0]]

\* ModelRetrainer.train_model: split, then fit on the training part
train_model(data, shuffle) ==
    LET trainset == construct_trainset(train_test_split(data, shuffle).trainset,
                        [raw_uids |-> <<>>, raw_iids |-> <<>>, ur |-> <<>>])
    IN Artifact(trainset, fit(trainset), Catalog)

\* RetrainRequest: min_new_ratings is Field(100, ge=10)
ValidMinNewRatings(min_new_ratings) == min_new_ratings >= 10

\* The handlers of main.py are "async def" and none of them awaits: the
\* event loop runs one handler to its end before it starts another, so no
\* request is served while the handler of POST /admin/retrain runs
EventLoopFree == retrain["server"].pc = "idle"

\* what the caller of retrain_model gets when it returns
\* {'success': False, 'error': str(e)}: the server answers 200 with
\* success=False and the cause, the scheduler logs the cause
RetrainFailed(p, cause) ==
    IF p = "server"
    THEN [op |-> "POST /admin/retrain", status |-> 200, success |-> FALSE,
          message |-> <<"Error en reentrenamiento", cause>>]
    ELSE [op |-> "check_and_retrain", outcome |-> "failure", error |-> cause]

\* a step of retrain_model that returns nothing to a caller yet
Running(p, step) == [op |-> "retrain_model", process |-> p, step |-> step]

\* retrain_model has been called after a check against min_new_ratings
Started(p, min_new_ratings) ==
    [op |-> "retrain_model", process |-> p, step |-> "loading",
     min_new_ratings |-> min_new_ratings]

\* (a slip) the check is skipped: every valid request starts a retrain
RetrainEndpointUnchecked(min_new_ratings) ==
    /\ EventLoopFree
    /\ IF ~ValidMinNewRatings(min_new_ratings)
       THEN /\ resp' = Unprocessable("POST /admin/retrain")
            /\ UNCHANGED retrain
       ELSE IF disk.model = Truncated
       THEN /\ resp' = [op |-> "POST /admin/retrain", status |-> 500,
                        detail |-> "Error reentrenando modelo",
                        raised_by |-> "check_retrain_needed"]
            /\ UNCHANGED retrain
       ELSE /\ retrain' = [retrain EXCEPT !["server"] =
                             [NotRunning EXCEPT !.pc = "loading"]]
            /\ resp' = Started("server", min_new_ratings)
    /\ UNCHANGED <<ledger, now, recommender, sess, disk, users>>

\* POST /admin/retrain, up to the call of retrain_model
RetrainEndpoint(min_new_ratings) ==
    /\ EventLoopFree
    /\ IF ~ValidMinNewRatings(min_new_ratings)
       THEN /\ resp' = Unprocessable("POST /admin/retrain")
            /\ UNCHANGED retrain
       ELSE IF disk.model = Truncated       \* pickle.load raises
       THEN /\ resp' = [op |-> "POST /admin/retrain", status |-> 500,
                        detail |-> "Error reentrenando modelo",
                        raised_by |-> "check_retrain_needed"]
            /\ UNCHANGED retrain
       ELSE IF ~check_retrain_needed(ledger, disk, min_new_ratings)
       THEN /\ resp' = [op |-> "POST /admin/retrain", status |-> 200,
                        success |-> FALSE,
                        message |-> <<"No es necesario reentrenar",
                                      Cardinality(ledger), min_new_ratings>>]
            /\ UNCHANGED retrain
       ELSE /\ retrain' = [retrain EXCEPT !["server"] =
                             [NotRunning EXCEPT !.pc = "loading"]]
            /\ resp' = Started("server", min_new_ratings)
    /\ UNCHANGED <<ledger, now, recommender, sess, disk, users>>

\* RetrainingScheduler.check_and_retrain, up to the call of retrain_model
CheckAndRetrain(min_new_ratings) ==
    /\ retrain["scheduler"].pc = "idle"
    /\ IF disk.model = Truncated            \* pickle.load raises: logged
       THEN /\ resp' = [op |-> "check_and_retrain", outcome |-> "error"]
            /\ UNCHANGED retrain
       ELSE IF ~check_retrain_needed(ledger, disk, min_new_ratings)
       THEN /\ resp' = [op |-> "check_and_retrain", outcome |-> "not_needed",
                        total_ratings |-> Cardinality(ledger)]
            /\ UNCHANGED retrain
       ELSE /\ retrain' = [retrain EXCEPT !["scheduler"] =
                             [NotRunning EXCEPT !.pc = "loading"]]
            /\ resp' = Started("scheduler", min_new_ratings)
    /\ UNCHANGED <<ledger, now, recommender, sess, disk, users>>

\* check_retrain_needed called on its own, as the scheduler's command line
\* and GET /admin/retrain/check do: it raises when the file does not load
CheckRetrainNeeded(min_new_ratings) ==
    /\ resp' = IF disk.model = Truncated
               THEN [op |-> "check_retrain_needed",
                     min_new_ratings |-> min_new_ratings, raised |-> TRUE]
               ELSE [op |-> "check_retrain_needed",
                     min_new_ratings |-> min_new_ratings, raised |-> FALSE,
                     result |-> check_retrain_needed(ledger, disk,
                                                     min_new_ratings)]
    /\ UNCHANGED <<ledger, now, recommender, sess, disk, retrain, users>>

\* retrain_model steps 1 to 3: the corpus, the table, the two combined;
\* any of them may raise
LoadAndCombine(p) ==
    /\ retrain[p].pc = "loading"
    /\ \/ /\ retrain' = [retrain EXCEPT ![p] = NotRunning]
          /\ resp' = RetrainFailed(p, "loading raised")
       \/ /\ retrain' = [retrain EXCEPT ![p] =
                [@ EXCEPT !.pc = "training",
                          !.corpus = combine_datasets(
                                        load_original_movielens_data,
                                        load_database_ratings(ledger))]]
          /\ resp' = Running(p, "training")
    /\ UNCHANGED <<ledger, now, recommender, sess, disk, users>>

\* (a slip) no "except Exception" in retrain_model: what train_model
\* raises reaches the caller, which answers 500 or logs an error
TrainAndEvaluateUncaught(p) ==
    /\ retrain[p].pc = "training"
    /\ \/ \E shuffle \in Shuffles :
            /\ retrain' = [retrain EXCEPT ![p] =
                  [@ EXCEPT !.pc = "trained",
                            !.fitted = train_model(retrain[p].corpus, shuffle)]]
            /\ resp' = Running(p, "trained")
       \/ /\ retrain' = [retrain EXCEPT ![p] = NotRunning]
          /\ resp' = IF p = "server"
                     THEN [op |-> "POST /admin/retrain", status |-> 500,
                           detail |-> "Error reentrenando modelo"]
                     ELSE [op |-> "check_and_retrain", outcome |-> "error"]
    /\ UNCHANGED <<ledger, now, recommender, sess, disk, users>>

\* retrain_model steps 4 and 5: train_model and evaluate_model; either may
\* raise
TrainAndEvaluate(p) ==
    /\ retrain[p].pc = "training"
    /\ \/ /\ retrain' = [retrain EXCEPT ![p] = NotRunning]
          /\ resp' = RetrainFailed(p, "training raised")
       \/ \E shuffle \in Shuffles :
            /\ retrain' = [retrain EXCEPT ![p] =
                  [@ EXCEPT !.pc = "trained",
                            !.fitted = train_model(retrain[p].corpus, shuffle)]]
            /\ resp' = Running(p, "trained")
    /\ UNCHANGED <<ledger, now, recommender, sess, disk, users>>

\* shutil.copy2(filepath, backup_path): the file of that name, if there is
\* one, is overwritten
copy2(backups, backup_path, content) ==
    {b \in backups : b.name # backup_path}
        \cup {[name |-> backup_path, content |-> content]}

\* export_model, first part: with backup_original (both callers pass
\* backup=True) and the file in place, the file is copied to a name made
\* of the clock reading, to the second
ExportBackup(p) ==
    /\ retrain[p].pc = "trained"
    /\ disk' = IF disk.model # None
               THEN [disk EXCEPT !.backups = copy2(@, now, disk.model)]
               ELSE disk
    /\ retrain' = [retrain EXCEPT ![p] =
                     [@ EXCEPT !.pc = "backed_up",
                               !.backup_path = IF disk.model # None
                                               THEN [name |-> now] ELSE None]]
    /\ resp' = Running(p, "backed_up")
    /\ UNCHANGED <<ledger, now, recommender, sess, users>>

\* export_model, second part: model_data is built, 'retrained_at' being
\* datetime.now().isoformat(), and open(filepath, 'wb') empties the file
ExportOpen(p) ==
    /\ retrain[p].pc = "backed_up"
    /\ now < MaxClock
    /\ \E offset \in UtcOffsets :
          retrain' = [retrain EXCEPT ![p] =
                        [@ EXCEPT !.pc = "writing",
                                  !.retrained_at = isoformat(now + offset)]]
    /\ now' = now + 1
    /\ disk' = [disk EXCEPT !.model = Truncated]
    /\ resp' = Running(p, "writing")
    /\ UNCHANGED <<ledger, recommender, sess, users>>

\* some other process has the file open for writing
OtherWriter(p) == \E q \in Processes \ {p} : retrain[q].pc = "writing"

\* export_model, last part: pickle.dump writes the file, or raises part
\* way. Two processes that write the file at once leave this one's bytes
\* or a mix that does not load.
ExportDump(p) ==
    /\ retrain[p].pc = "writing"
    /\ \/ /\ \E written \in {Pickle(retrain[p].fitted, retrain[p].retrained_at)}
                               \cup (IF OtherWriter(p) THEN {Truncated} ELSE {}) :
                disk' = [disk EXCEPT !.model = written]
          /\ retrain' = [retrain EXCEPT ![p] = [@ EXCEPT !.pc = "exported"]]
          /\ resp' = Running(p, "exported")
       \/ /\ disk' = [disk EXCEPT !.model = Truncated]
          /\ retrain' = [retrain EXCEPT ![p] = NotRunning]
          /\ resp' = RetrainFailed(p, "export raised")
    /\ UNCHANGED <<ledger, now, recommender, sess, users>>

\* (a slip) the object in use is updated in place, the fitted model
\* first, and the update stops before the trainset is replaced
ReloadAfterRetrainInPlace ==
    /\ retrain["server"].pc = "exported"
    /\ IF disk.model = Truncated
       THEN /\ resp' = [op |-> "POST /admin/retrain", status |-> 500,
                        detail |-> "Error reentrenando modelo",
                        raised_by |-> "MovieRecommenderDB"]
            /\ UNCHANGED recommender
       ELSE /\ recommender' = [recommender EXCEPT !.model = disk.model.data.model]
            /\ resp' = [op |-> "POST /admin/retrain", status |-> 200,
                        success |-> TRUE, message |-> "Modelo reentrenado"]
    /\ retrain' = [retrain EXCEPT !["server"] = NotRunning]
    /\ UNCHANGED <<ledger, now, sess, disk, users>>

\* (a slip) the global is cleared before the new object is built
ReloadAfterRetrainCleared ==
    /\ retrain["server"].pc = "exported"
    /\ IF disk.model = Truncated
       THEN /\ resp' = [op |-> "POST /admin/retrain", status |-> 500,
                        detail |-> "Error reentrenando modelo",
                        raised_by |-> "MovieRecommenderDB"]
            /\ recommender' = None
       ELSE /\ recommender' = disk.model.data
            /\ resp' = [op |-> "POST /admin/retrain", status |-> 200,
                        success |-> TRUE, message |-> "Modelo reentrenado"]
    /\ retrain' = [retrain EXCEPT !["server"] = NotRunning]
    /\ UNCHANGED <<ledger, now, sess, disk, users>>

\* POST /admin/retrain after retrain_model returned success: the global is
\* bound to a new MovieRecommenderDB read from the file; if the file does
\* not load, the handler answers 500 and the global keeps its object
ReloadAfterRetrain ==
    /\ retrain["server"].pc = "exported"
    /\ IF disk.model = Truncated
       THEN /\ resp' = [op |-> "POST /admin/retrain", status |-> 500,
                        detail |-> "Error reentrenando modelo",
                        raised_by |-> "MovieRecommenderDB"]
            /\ UNCHANGED recommender
       ELSE /\ recommender' = disk.model.data
            /\ resp' = [op |-> "POST /admin/retrain", status |-> 200,
                        success |-> TRUE, message |-> "Modelo reentrenado"]
    /\ retrain' = [retrain EXCEPT !["server"] = NotRunning]
    /\ UNCHANGED <<ledger, now, sess, disk, users>>

\* (a slip) _send_notification waits for an answer that never comes: the
\* job does not return
SchedulerDoneWaiting ==
    /\ retrain["scheduler"].pc = "exported"
    /\ resp' = [op |-> "check_and_retrain", outcome |-> "notifying"]
    /\ UNCHANGED <<ledger, now, recommender, sess, disk, retrain, users>>

\* check_and_retrain after retrain_model returned success: a log entry
SchedulerDone ==
    /\ retrain["scheduler"].pc = "exported"
    /\ retrain' = [retrain EXCEPT !["scheduler"] = NotRunning]
    /\ resp' = [op |-> "check_and_retrain", outcome |-> "success"]
    /\ UNCHANGED <<ledger, now, recommender, sess, disk, users>>

\* requests the server answers between two handler runs
ServePredict(user_id, movie_id) ==
    EventLoopFree /\ PredictEndpoint(user_id, movie_id)
ServeSimilarMovies(movie_id, n) ==
    EventLoopFree /\ SimilarMoviesEndpoint(movie_id, n)

----------------------------------------------------------------------------
(* The users table (backend/database.py) and the endpoints of main.py that *)
(* read or write the two tables without asking the recommender            *)

Mails == {"ann@mail", "bob@mail"}
UserNames == {"ann", "bob"}
Password == "secret"

\* UserCRUD.get_user_by_mail / get_user_by_name: Query.first() on a unique
\* column
get_user_by_mail(rows, mail) ==
    IF \E u \in rows : u.mail = mail
    THEN CHOOSE u \in rows : u.mail = mail ELSE None
get_user_by_name(rows, user_name) ==
    IF \E u \in rows : u.user_name = user_name
    THEN CHOOSE u \in rows : u.user_name = user_name ELSE None

\* UserCRUD.create_user: the table after the call and the object returned;
\* the INSERT of a primary key in use raises IntegrityError at commit
create_user(rows, user_id, mail, user_name, password) ==
    IF get_user_by_mail(rows, mail) # None
    THEN [rows |-> rows, raised |-> FALSE,
          result |-> get_user_by_mail(rows, mail)]
    ELSE IF get_user_by_name(rows, user_name) # None
    THEN [rows |-> rows, raised |-> FALSE,
          result |-> get_user_by_name(rows, user_name)]
    ELSE IF \E u \in rows : u.user_id = user_id
    THEN [rows |-> rows, raised |-> TRUE, result |-> None]
    ELSE LET new_user == [user_id |-> user_id, mail |-> mail,
                          user_name |-> user_name, password |-> password]
         IN [rows |-> rows \cup {new_user}, raised |-> FALSE,
             result |-> new_user]

\* POST /users/add
AddUserEndpoint(user_id, mail, user_name, password) ==
    /\ LET repeated_mail == get_user_by_mail(users, mail)
           repeated_user_name == get_user_by_name(users, user_name)
           created == create_user(users, user_id, mail, user_name, password)
       IN IF repeated_mail # None
          THEN /\ resp' = [op |-> "POST /users/add", status |-> 200,
                           body |-> [user_id |-> "-", mail |-> "-",
                                     user_name |-> "-",
                                     existing_mail |-> TRUE,
                                     existing_user_name |-> FALSE]]
               /\ users' = users
          ELSE IF repeated_user_name # None
          THEN /\ resp' = [op |-> "POST /users/add", status |-> 200,
                           body |-> [user_id |-> repeated_user_name.user_id,
                                     mail |-> repeated_user_name.mail,
                                     user_name |-> repeated_user_name.user_name,
                                     existing_mail |-> FALSE,
                                     existing_user_name |-> TRUE]]
               /\ users' = users
          ELSE IF created.raised
          THEN /\ resp' = [op |-> "POST /users/add", status |-> 400,
                           detail |-> "Error: IntegrityError"]
               /\ users' = users
          ELSE /\ resp' = [op |-> "POST /users/add", status |-> 200,
                           body |-> [user_id |-> created.result.user_id,
                                     mail |-> created.result.mail,
                                     user_name |-> created.result.user_name,
                                     existing_mail |-> FALSE,
                                     existing_user_name |-> FALSE]]
               /\ users' = created.rows
    /\ UNCHANGED <<ledger, now, recommender, sess, disk, retrain>>

\* GET /database/stats
DatabaseStatsEndpoint ==
    /\ LET all_ratings == ledger
           all_users == users
           unique_users == Cardinality({user.user_id : user \in all_users})
           unique_movies == Cardinality({r.movie_id : r \in all_ratings})
       IN resp' = [op |-> "GET /database/stats", status |-> 200,
                   body |-> [total_ratings |-> Cardinality(all_ratings),
                             total_users |-> unique_users,
                             total_movies_rated |-> unique_movies]]
    /\ UNCHANGED <<ledger, now, recommender, sess, disk, retrain, users>>

\* str(HTTPException(status_code, detail)), as "except Exception as e" of
\* the same handler formats it
HTTPExceptionStr(status_code, detail) == <<status_code, detail>>

\* DELETE /ratings/delete: the HTTPException(404) is raised inside the try
\* and caught by "except Exception" of the same handler
DeleteRatingEndpoint(user_id, movie_id) ==
    /\ LET success == RowsOf(ledger, user_id, movie_id) # {} IN
       IF success
       THEN /\ ledger' = ledger \ {First(RowsOf(ledger, user_id, movie_id))}
            /\ resp' = [op |-> "DELETE /ratings/delete", user_id |-> user_id,
                        movie_id |-> movie_id, status |-> 200,
                        body |-> [message |-> "Rating eliminado exitosamente"]]
       ELSE /\ ledger' = ledger
            /\ resp' = [op |-> "DELETE /ratings/delete", user_id |-> user_id,
                        movie_id |-> movie_id, status |-> 400,
                        detail |-> <<"Error", HTTPExceptionStr(404,
                                                "Rating no encontrado")>>]
    /\ UNCHANGED <<now, recommender, sess, disk, retrain, users>>

\* the two tables written and read through the HTTP boundary and by
\* RatingCRUD.create_rating directly
NextUsers ==
    \/ LoadModel
    \/ \E u \in UserIds, m \in {1, 2} : CreateRating(u, m, 4)
    \/ \E u \in UserIds, m \in {1, 2} : AddRatingEndpoint(u, m, 5)
    \/ \E u \in UserIds, m \in {1, 2} : DeleteRatingEndpoint(u, m)
    \/ \E u \in UserIds, mail \in Mails, user_name \in UserNames :
          AddUserEndpoint(u, mail, user_name, Password)
    \/ DatabaseStatsEndpoint

----------------------------------------------------------------------------
Init ==
    /\ ledger = {}
    /\ now = 0
    /\ recommender = None
    /\ sess = [s \in Sessions |-> Idle]
    /\ resp = [op |-> "none"]
    /\ disk = NoFiles
    /\ retrain = [p \in Processes |-> NotRunning]
    /\ users = {}

Next ==
    \/ LoadModel
    \/ \E u \in UserIds, m \in MovieIds, r \in Stars : CreateRating(u, m, r)
    \/ \E u \in UserIds, m \in MovieIds : DeleteRating(u, m)
    \/ \E u \in UserIds, n \in Ns : GetRecommendationsFromDb(u, n, TRUE, TRUE)
    \/ \E n \in {1, MaxN}, t \in {1, DefaultMinRatings} : GetPopularMovies(n, t)

\* The server some time after its deployment on the small artifact: ten
\* ratings were stored before the clock's origin, the first by user 1 for
\* item 3, a pair the corpus holds too, the others by users 101, 102 and
\* 103, each for the three items, user 103 being the last to rate
StoredRatings ==
    {[id |-> k, user_id |-> IF k = 1 THEN 1 ELSE 101 + ((k - 2) \div 3),
      movie_id |-> IF k = 1 THEN 3 ELSE 1 + ((k - 2) % 3),
      rating |-> IF k = 1 THEN 5 ELSE 4,
      timestamp |-> k - 11] : k \in 1 .. 10}

InitRetrain ==
    /\ ledger = StoredRatings
    /\ now = 0
    /\ recommender = Artifact(TrainsetSmall, SvdSmall, Catalog)
    /\ sess = [s \in Sessions |-> Idle]
    /\ resp = [op |-> "none"]
    /\ disk = [model |-> Pickle(Artifact(TrainsetSmall, SvdSmall, Catalog), None),
               backups |-> {}]
    /\ retrain = [p \in Processes |-> NotRunning]
    /\ users = {}

\* retraining by the server and by the scheduler while ratings arrive and
\* requests are served
NextRetrain ==
    \/ CreateRating(1, 1, 4)
    \/ \E t \in {9, 10, 11} : RetrainEndpoint(t)
    \/ \E t \in {1, 11} : CheckAndRetrain(t)
    \/ \E t \in {1, 11} : CheckRetrainNeeded(t)
    \/ \E p \in Processes : LoadAndCombine(p)
    \/ \E p \in Processes : TrainAndEvaluate(p)
    \/ \E p \in Processes : ExportBackup(p)
    \/ \E p \in Processes : ExportOpen(p)
    \/ \E p \in Processes : ExportDump(p)
    \/ ReloadAfterRetrain
    \/ SchedulerDone
    \/ \E u \in {1, 101}, m \in {1} : ServePredict(u, m)
    \/ \E m \in {1} : ServeSimilarMovies(m, MaxN)

\* the steps of a retrain_model call in process p, with what its caller
\* does when it returns success
RetrainSteps(p) ==
    \/ LoadAndCombine(p)
    \/ TrainAndEvaluate(p)
    \/ ExportBackup(p)
    \/ ExportOpen(p)
    \/ ExportDump(p)
    \/ p = "server" /\ ReloadAfterRetrain
    \/ p = "scheduler" /\ SchedulerDone

\* the two triggers and the attempts they start, on a ledger that does not
\* change, while the server answers requests between its handlers
NextCoordinator ==
    \/ \E t \in {9, 10, 11} : RetrainEndpoint(t)
    \/ \E t \in {1, 11} : CheckAndRetrain(t)
    \/ \E p \in Processes : RetrainSteps(p)
    \/ \E u \in {1, 101} : ServePredict(u, 1)

\* recommendations for users the model knows or not, asked of the engine
\* with the ledger and of the engine without it
NextTopN ==
    \/ LoadModel
    \/ \E m \in MovieIds : CreateRating(1, m, 4)
    \/ \E u \in UserIds, n \in Ns : GetRecommendationsFromDb(u, n, TRUE, TRUE)
    \/ \E u \in UserIds, n \in Ns : GetTopNRecommendations(u, n, TRUE)

\* recommendations for a user the model does not know, asked both ways
NextNewUser ==
    \/ LoadModel
    \/ \E m \in MovieIds, r \in Stars : CreateRating(101, m, r)
    \/ \E m \in MovieIds : DeleteRating(101, m)
    \/ \E n \in Ns : GetRecommendationsFromDb(101, n, TRUE, TRUE)
    \/ \E n \in Ns : GetRecommendationsForNewUser(101, n)

\* create_rating calls of two sessions, interleaved
NextConc ==
    \/ \E s \in Sessions, u \in UserIds, m \in MovieIds, r \in Stars :
          CreateRatingQuery(s, u, m, r)
    \/ \E s \in Sessions : CommitUpdate(s)
    \/ \E s \in Sessions : CommitInsert(s)

\* calls of the similarity engine, directly and through the HTTP boundary
NextSim ==
    \/ LoadModel
    \/ LoadDegenerateModel
    \/ \E m \in MovieIds, n \in Ns, ex \in SUBSET MovieIds :
          CallGetSimilarMovies(m, n, ex)
    \/ \E m \in MovieIds, n \in Ns : CallInferenceGetSimilarMovies(m, n)
    \/ \E m \in MovieIds, n \in Ns : SimilarMoviesEndpoint(m, n)

\* thresholds asked of the popular list, around the default
Thresholds ==
    {1, 2, DefaultMinRatings - 1, DefaultMinRatings, DefaultMinRatings + 1}

\* calls of the popular list, directly and through the HTTP boundary
NextPop ==
    \/ LoadModel
    \/ LoadDegenerateModel
    \/ \E n \in 0 .. MaxN, t \in Thresholds : GetPopularMovies(n, t)
    \/ \E n \in 0 .. MaxN, t \in Thresholds \cup {0} : PopularMoviesEndpoint(n, t)

\* requests to the HTTP boundary, before and after the model is loaded
NextHttp ==
    \/ LoadModel
    \/ \E u \in UserIds, m \in MovieIds, r \in RequestStars :
          AddRatingEndpoint(u, m, r)
    \/ \E u \in UserIds : UserHistoryEndpoint(u)
    \/ \E u \in UserIds \cup {EmptyId}, n \in {0, 1, MaxN} :
          RecommendationsEndpoint(u, n)
    \/ \E n \in {MaxN} : PopularMoviesEndpoint(n, DefaultMinRatings)
    \/ \E m \in MovieIds : SimilarMoviesEndpoint(m, MaxN)
    \/ \E u \in UserIds, m \in MovieIds : PredictEndpoint(u, m)
    \/ HealthEndpoint

\* each step of retrain_model is straight-line code of a running process:
\* once it can be taken it is taken (it terminates or raises)
SpecCoordinator ==
    /\ InitRetrain
    /\ [][NextCoordinator]_vars
    /\ \A p \in Processes : WF_vars(RetrainSteps(p))
SpecTopN == Init /\ [][NextTopN]_vars
SpecUsers == Init /\ [][NextUsers]_vars
SpecNewUser == Init /\ [][NextNewUser]_vars
SpecRetrain == InitRetrain /\ [][NextRetrain]_vars
SpecHttp == Init /\ [][NextHttp]_vars
SpecPop == Init /\ [][NextPop]_vars
SpecConc == Init /\ [][NextConc]_vars
SpecSim == Init /\ [][NextSim]_vars
Spec == Init /\ [][Next]_vars

----------------------------------------------------------------------------
(* Properties *)

\* what the claims call things
IsRecommend == resp.op = "get_recommendations_from_db"
RatedBy(user_id) == {r.movie_id : r \in {q \in ledger : q.user_id = user_id}}
HistoryCount(user_id) == Cardinality({r \in ledger : r.user_id = user_id})
InFactorModel(user_id) == user_id \in Range(recommender.trainset.raw_uids)
ModelItems == Range(recommender.trainset.raw_iids)
ItemsOf(result) == {result[k][1] : k \in 1 .. Len(result)}
ItemScores(result) == [k \in 1 .. Len(result) |-> <<result[k][1], result[k][2]>>]

\* C1: with create_rating and delete_rating run one at a time, the ledger has
\* at most one row per (user, item); a create_rating for a pair already there
\* adds no row, leaves every other row alone and gives that row the new score
\* and a later timestamp; a create_rating for a new pair adds exactly one row.
C1_OneRowPerPair ==
    [][resp'.op = "create_rating" =>
         LET u == resp'.user_id
             m == resp'.movie_id
             old == RowsOf(ledger, u, m)
             new == RowsOf(ledger', u, m)
         IN /\ \A a, b \in ledger' :
                 (a.user_id = b.user_id /\ a.movie_id = b.movie_id) => a = b
            /\ Cardinality(new) = 1
            /\ ledger' \ new = ledger \ old
            /\ \A r \in new : r.rating = resp'.rating /\ r.timestamp = now
            /\ old # {} =>
                 /\ Cardinality(ledger') = Cardinality(ledger)
                 /\ \A o \in old, r \in new :
                      r.id = o.id /\ r.timestamp > o.timestamp]_vars

\* C1 witness: a second rating of the same pair, with another score, has
\* just been stored over the first
C1_Witness ==
    /\ resp.op = "create_rating"
    /\ resp.existed
    /\ resp.rating = 4
    /\ resp.result.timestamp = 1
    /\ Cardinality(ledger) = 1

\* C3: for a user of the Factor Model, get_recommendations_from_db with
\* exclude_rated=True returns no item the user has rated in the ledger.
C3_KnownExcludesRated ==
    (IsRecommend /\ resp.exclude_rated /\ InFactorModel(resp.user_id))
        => ItemsOf(resp.result) \cap RatedBy(resp.user_id) = {}

\* C3 witness: a known user who rated an item of the model asked for as many
\* items as the model has, and got all but the rated one
C3_Witness ==
    /\ IsRecommend /\ resp.exclude_rated /\ InFactorModel(resp.user_id)
    /\ RatedBy(resp.user_id) \cap ModelItems # {}
    /\ resp.n >= Cardinality(ModelItems)
    /\ Len(resp.result) = Cardinality(ModelItems \ RatedBy(resp.user_id))
    /\ resp.result # <<>>

\* C4: for a user absent from the Factor Model with at least one ledger
\* rating, get_recommendations_from_db with exclude_rated=True returns at most
\* n items, none of which the user has rated (on every path of that regime).
C4_ColdExcludesRated ==
    (IsRecommend /\ resp.exclude_rated /\ resp.use_hybrid
       /\ ~InFactorModel(resp.user_id) /\ HistoryCount(resp.user_id) >= 1)
        => /\ Len(resp.result) <= resp.n
           /\ ItemsOf(resp.result) \cap RatedBy(resp.user_id) = {}

\* C5: for a user absent from the Factor Model with no ledger rating,
\* get_recommendations_from_db(user, n) returns the items and scores of
\* get_popular_movies(n) with the default threshold, in the same order.
C5_NoHistoryIsPopular ==
    (IsRecommend /\ ~InFactorModel(resp.user_id) /\ HistoryCount(resp.user_id) = 0)
        => ItemScores(resp.result)
             = get_popular_movies(recommender, resp.n, DefaultMinRatings)

\* C5 witness: such a user got a non-empty popular list while the ledger held
\* ratings of other users
C5_Witness ==
    /\ IsRecommend /\ ~InFactorModel(resp.user_id)
    /\ HistoryCount(resp.user_id) = 0
    /\ ledger # {}
    /\ resp.result # <<>>

\* C6: each request (default use_hybrid) is served under exactly one regime,
\* fixed by the state at the time of the request: KNOWN iff the user is in the
\* Factor Model, COLD_WITH_HISTORY iff absent with at least one ledger rating,
\* COLD_NO_HISTORY iff absent with none.
C6_RegimeByState ==
    (IsRecommend /\ resp.use_hybrid) =>
        /\ resp.regime \in {"KNOWN", "COLD_WITH_HISTORY", "COLD_NO_HISTORY"}
        /\ (resp.regime = "KNOWN") <=> InFactorModel(resp.user_id)
        /\ (resp.regime = "COLD_WITH_HISTORY") <=>
               (~InFactorModel(resp.user_id) /\ HistoryCount(resp.user_id) >= 1)
        /\ (resp.regime = "COLD_NO_HISTORY") <=>
               (~InFactorModel(resp.user_id) /\ HistoryCount(resp.user_id) = 0)

\* C6 witness: a user absent from the model is served without history while
\* another user's ratings are in the ledger
C6_Witness ==
    /\ IsRecommend /\ resp.use_hybrid
    /\ resp.regime = "COLD_NO_HISTORY"
    /\ ledger # {}

\* the candidates of the similarity pass: unrated items among the similar
\* items of the liked items (rating >= 4.0) the model knows
Candidates(user_id) ==
    {m \in ModelItems \ RatedBy(user_id) :
        \E r \in ledger :
            /\ r.user_id = user_id /\ r.rating >= 4
            /\ m \in ItemsOf(get_similar_movies(recommender, r.movie_id,
                                                SimilarPerLiked, {}))}

\* C7: for a user absent from the Factor Model with at least one ledger
\* rating, when the similarity pass has no candidate the result is the
\* popular list for the same n.
C7_FallbackIsPopular ==
    (IsRecommend /\ resp.use_hybrid /\ ~InFactorModel(resp.user_id)
       /\ HistoryCount(resp.user_id) >= 1 /\ Candidates(resp.user_id) = {})
        => ItemScores(resp.result)
             = get_popular_movies(recommender, resp.n, DefaultMinRatings)

\* C7 witness: the user liked an item of the model, rated every item similar
\* to it, and got a non-empty popular list
C7_Witness ==
    /\ IsRecommend /\ resp.use_hybrid /\ ~InFactorModel(resp.user_id)
    /\ \E r \in ledger : /\ r.user_id = resp.user_id /\ r.rating >= 4
                         /\ r.movie_id \in ModelItems
    /\ Candidates(resp.user_id) = {}
    /\ resp.result # <<>>

\* C2: when create_rating calls for one (user, item) pair run in separate
\* sessions under any interleaving of their queries and commits, then once
\* every call has returned the ledger holds exactly one row for the pair,
\* with the score of the call that committed last.
C2_LastCommitWins ==
    (resp.op = "create_rating" /\ \A s \in Sessions : sess[s].pc = "idle")
        => LET rows == RowsOf(ledger, resp.user_id, resp.movie_id) IN
           /\ Cardinality(rows) = 1
           /\ \A r \in rows : r.rating = resp.rating

IsSimilar ==
    resp.op \in {"get_similar_movies", "MovieRecommender.get_similar_movies"}

\* C8: for an item X of the model, get_similar_movies(X, n, E) contains
\* neither X nor a member of E, and has min(n, number of model items other
\* than X and outside E) entries.
C8_ExcludeBeforeCut ==
    (IsSimilar /\ resp.movie_id \in ModelItems) =>
        /\ resp.movie_id \notin ItemsOf(resp.result)
        /\ ItemsOf(resp.result) \cap resp.exclude_movie_ids = {}
        /\ Len(resp.result)
             = Min(resp.n, Cardinality(ModelItems
                                       \ ({resp.movie_id} \cup resp.exclude_movie_ids)))

\* C8 witness: one slot was asked for, an item of the model was excluded, and
\* the slot was filled by another item
C8_Witness ==
    /\ IsSimilar /\ resp.movie_id \in ModelItems
    /\ resp.n = 1
    /\ (resp.exclude_movie_ids \cap ModelItems) \ {resp.movie_id} # {}
    /\ Len(resp.result) = 1

\* C9: get_similar_movies of an item that has no row in the Factor Model
\* returns the empty list (no error reaches the caller), whatever n and the
\* exclude set.
C9_UnknownItemEmpty ==
    (IsSimilar /\ resp.movie_id \notin ModelItems) => resp.result = <<>>

\* C9 witness: an unknown item was asked for, with a non-empty exclude set
C9_Witness ==
    /\ IsSimilar /\ resp.movie_id \notin ModelItems
    /\ resp.exclude_movie_ids # {}
    /\ resp.result = <<>>

\* C10: a similar-items request for an item unknown to the Factor Model gets
\* a not-found outcome (status 404), which is neither the success outcome
\* (200) nor an error outcome of validation (400, 422).
C10_UnknownItemNotFound ==
    (resp.op = "POST /similar-movies" /\ recommender # None
       /\ resp.movie_id \notin ModelItems)
        => resp.status = 404

\* C11: in the output of get_similar_movies, two items with the same similarity
\* score appear in ascending order of item identifier, however the items are
\* stored in the Factor Model.
C11_TiesByAscendingId ==
    IsSimilar =>
        \A i, j \in 1 .. Len(resp.result) :
            (i < j /\ FracEq(resp.result[i][2], resp.result[j][2]))
                => resp.result[i][1] < resp.result[j][1]

\* a ranked list: scores never increase along it, and of two entries with the
\* same score the one with the smaller identifier comes first
Ranked(result) ==
    \A i, j \in 1 .. Len(result) :
        i < j => /\ ~FracLess(result[i][2], result[j][2])
                 /\ FracEq(result[i][2], result[j][2])
                        => result[i][1] < result[j][1]

\* C12: the output of get_recommendations_from_db, under each regime, and of
\* get_popular_movies is in descending order of score, and two items with the
\* same score appear in ascending order of item identifier.
C12_DescendingThenId ==
    (IsRecommend \/ resp.op = "get_popular_movies") => Ranked(resp.result)

\* C13: when the latent vector of the query item or of another item is the
\* zero vector, get_similar_movies returns a list (no error), in which no
\* item with an undefined similarity (nan) comes before an item with a
\* defined one.
C13_UndefinedRankedLast ==
    IsSimilar =>
        \A i, j \in 1 .. Len(resp.result) :
            (i < j /\ IsNaN(resp.result[i][2])) => IsNaN(resp.result[j][2])

\* the observations of an item in the training corpus of the loaded model:
\* the places <<user, k>> of its ratings, how many there are, and their mean
Observations(m) ==
    LET ts == recommender.trainset IN
    {p \in (1 .. Len(ts.raw_uids)) \X (1 .. Len(ts.raw_iids)) :
        /\ p[2] <= Len(ts.ur[p[1]])
        /\ ts.raw_iids[ts.ur[p[1]][p[2]][1]] = m}
ObservationCount(m) == Cardinality(Observations(m))
ObservationMean(m) ==
    LET ts == recommender.trainset
        with(v) == Cardinality({p \in Observations(m) : ts.ur[p[1]][p[2]][2] = v})
    IN Frac(with(1) + 2 * with(2) + 3 * with(3) + 4 * with(4) + 5 * with(5),
            ObservationCount(m))

\* C14: for every threshold min_ratings >= 1 and every count n >= 0,
\* get_popular_movies returns at most n items, each with at least min_ratings
\* observations in the training corpus and scored by the arithmetic mean of
\* those observations, in descending order of the mean; the popular endpoint
\* lists at most n items, each with at least min_ratings observations.
C14_PopularThreshold ==
    /\ (resp.op = "get_popular_movies" /\ resp.min_ratings >= 1) =>
          /\ Len(resp.result) <= resp.n
          /\ \A k \in 1 .. Len(resp.result) :
                /\ ObservationCount(resp.result[k][1]) >= resp.min_ratings
                /\ resp.result[k][2] = ObservationMean(resp.result[k][1])
          /\ \A i, j \in 1 .. Len(resp.result) :
                i < j => ~FracLess(resp.result[i][2], resp.result[j][2])
    /\ (resp.op = "POST /movies/popular" /\ resp.status = 200) =>
          /\ Len(resp.body.movies) <= resp.n
          /\ \A k \in 1 .. Len(resp.body.movies) :
                ObservationCount(resp.body.movies[k].movie_id) >= resp.min_ratings

\* C14 witness: under the default threshold an item of the corpus that is one
\* observation short was left out, and an item that has enough was returned
C14_Witness ==
    /\ resp.op = "get_popular_movies"
    /\ resp.min_ratings = DefaultMinRatings
    /\ resp.result # <<>>
    /\ \E m \in ModelItems :
          /\ ObservationCount(m) = DefaultMinRatings - 1
          /\ m \notin ItemsOf(resp.result)
          /\ Len(resp.result) < resp.n

\* the items of the loaded model with enough observations in its corpus
Qualifying(min_ratings) ==
    {m \in ModelItems : ObservationCount(m) >= min_ratings}

\* C15: while the loaded Factor Model stays the same, whatever create_rating
\* and delete_rating have done to the ledger, get_popular_movies(n, threshold)
\* is what the training corpus alone gives: the min(n, number of qualifying
\* items) qualifying items of highest corpus mean, with those means.
C15_PopularIgnoresLedger ==
    resp.op = "get_popular_movies" =>
        /\ ItemsOf(resp.result) \subseteq Qualifying(resp.min_ratings)
        /\ Len(resp.result)
             = Min(resp.n, Cardinality(Qualifying(resp.min_ratings)))
        /\ Cardinality(ItemsOf(resp.result)) = Len(resp.result)
        /\ \A k \in 1 .. Len(resp.result) :
              /\ resp.result[k][2] = ObservationMean(resp.result[k][1])
              /\ \A m \in Qualifying(resp.min_ratings) \ ItemsOf(resp.result) :
                    ~FracLess(resp.result[k][2], ObservationMean(m))

\* C15 witness: the popular list was asked for after the ledger got a rating
\* of an item that is in the corpus without qualifying, and another rating
\* of a qualifying item
C15_Witness ==
    /\ resp.op = "get_popular_movies"
    /\ resp.result # <<>>
    /\ \E r \in ledger : /\ r.movie_id \in ModelItems
                         /\ r.movie_id \notin Qualifying(resp.min_ratings)
    /\ \E r \in ledger : r.movie_id \in ItemsOf(resp.result)

\* the endpoints that need the Factor Model: submit rating, history,
\* recommend, popular, similar, predict, health
EngineEndpoints ==
    {"POST /ratings/add", "GET /ratings/user", "POST /recommendations/from-db",
     "POST /movies/popular", "POST /similar-movies", "POST /predict",
     "GET /health"}

\* C16: while the Factor Model is not loaded (recommender is None), a
\* well-formed request to any engine endpoint is answered with the not-ready
\* outcome (503) and the ledger is left as it was; a submit-rating request
\* stores nothing.
C16_NotReadyBeforeLoad ==
    [][(recommender = None /\ resp'.op \in EngineEndpoints
          /\ resp'.status # 422)
        => (resp'.status = 503 /\ ledger' = ledger)]_vars

\* C16 witness: a submit-rating request with a score in range was refused
\* with 503 and nothing is stored
C16_Witness ==
    /\ recommender = None
    /\ resp.op = "POST /ratings/add"
    /\ ValidRating(resp.rating)
    /\ resp.status = 503
    /\ ledger = {}

\* C17: a recommend request whose user identifier is the empty string gets
\* an invalid-argument outcome (400 or 422) and no recommendation list.
C17_EmptyUserInvalid ==
    (resp.op = "POST /recommendations/from-db" /\ resp.user_id = EmptyId
       /\ recommender # None)
        => resp.status \in {400, 422}

\* C18: after any sequence of submit-rating requests every row of the ledger
\* has a score in [1, 5]; a request with a score outside that range is
\* rejected (422) and leaves the ledger as it was.
C18_ScoresInRange ==
    [][/\ \A r \in ledger' : 1 <= r.rating /\ r.rating <= 5
       /\ (resp'.op = "POST /ratings/add"
             /\ (resp'.rating < 1 \/ resp'.rating > 5))
            => (resp'.status = 422 /\ ledger' = ledger)]_vars

\* C18 witness: a score above the range was rejected while the ledger held
\* a row stored by an earlier request
C18_Witness ==
    /\ resp.op = "POST /ratings/add"
    /\ resp.rating > 5
    /\ resp.status = 422
    /\ ledger # {}

\* C19: delete_rating(user, item) returns True and removes the record of
\* that pair, and no other, when the ledger has one; it returns False and
\* leaves the whole ledger as it was when the ledger has none.
C19_DeleteExactlyThePair ==
    [][resp'.op = "delete_rating" =>
         LET rows == RowsOf(ledger, resp'.user_id, resp'.movie_id) IN
         IF rows # {}
         THEN resp'.result = TRUE /\ ledger' = ledger \ rows
         ELSE resp'.result = FALSE /\ ledger' = ledger]_vars

\* C19 witness: a record was deleted while the same user had a record of
\* another item, which is still there
C19_Witness ==
    /\ resp.op = "delete_rating"
    /\ resp.result = TRUE
    /\ \E r \in ledger : r.user_id = resp.user_id /\ r.movie_id # resp.movie_id
    /\ RowsOf(ledger, resp.user_id, resp.movie_id) = {}

\* C20: a submit-rating request stores the rating before the recommendations
\* are computed: in the answer of add_rating_and_get_recommendations the
\* rating is in the ledger and the item just rated is not recommended.
C20_RatedItemNotRecommended ==
    (resp.op = "POST /ratings/add" /\ resp.status = 200) =>
        /\ \E r \in ledger : /\ r.user_id = resp.user_id
                             /\ r.movie_id = resp.movie_id
                             /\ r.rating = resp.rating
        /\ \A k \in 1 .. Len(resp.body.recommendations) :
              resp.body.recommendations[k].movie_id # resp.movie_id

----------------------------------------------------------------------------
\* C21: check_retrain_needed(threshold) returns True exactly when the number
\* of ledger records stamped later than the retrain timestamp the artifact
\* records is at least threshold; when the artifact records none, exactly
\* when the number of all ledger records is at least threshold.
CountedAsNew ==
    IF disk.model.retrained_at = None THEN ledger
    ELSE {r \in ledger : r.timestamp > disk.model.retrained_at.iso}

C21_NewSinceRetrain ==
    (resp.op = "check_retrain_needed" /\ ~resp.raised)
        => (resp.result <=> Cardinality(CountedAsNew) >= resp.min_new_ratings)

\* the check answers False after a retrain although the whole ledger is
\* above the threshold, and True once a rating arrived after it
C21_Witness ==
    /\ resp.op = "check_retrain_needed"
    /\ ~resp.raised
    /\ disk.model.retrained_at # None
    /\ resp.result
    /\ CountedAsNew # ledger
    /\ Cardinality(CountedAsNew) = resp.min_new_ratings

----------------------------------------------------------------------------
\* C22: a retrain trigger (POST /admin/retrain or the scheduler's
\* check_and_retrain) that finds retraining not needed trains nothing and
\* changes nothing: retrain_model is called only when check_retrain_needed
\* holds for the trigger's threshold, and the step that gives the not-needed
\* outcome leaves the artifact, the backups, the active model, the ledger
\* and the retrain calls in flight as they were.
NotNeeded(r) ==
    \/ /\ r.op = "POST /admin/retrain"
       /\ r.status = 200
       /\ ~r.success
       /\ r.message[1] = "No es necesario reentrenar"
    \/ /\ r.op = "check_and_retrain"
       /\ r.outcome = "not_needed"

C22_NotNeededChangesNothing ==
    [][/\ (resp'.op = "retrain_model" /\ resp'.step = "loading")
            => check_retrain_needed(ledger, disk, resp'.min_new_ratings)
       /\ NotNeeded(resp')
            => UNCHANGED <<ledger, recommender, disk, retrain>>]_vars

\* the server answers not-needed after an export, while the ledger as a
\* whole is above the threshold
C22_Witness ==
    /\ NotNeeded(resp)
    /\ resp.op = "POST /admin/retrain"
    /\ disk.model # Truncated
    /\ disk.model.retrained_at # None
    /\ Cardinality(ledger) >= resp.message[3]

----------------------------------------------------------------------------
\* C23: in the corpus a retrain builds from the original corpus and the
\* ledger, every (user, item) key occurs at most once, and a key held by
\* both carries the ledger's score.
MergedKeysOnce(corpus) ==
    \A i, j \in 1 .. Len(corpus) :
        (corpus[i][1] = corpus[j][1] /\ corpus[i][2] = corpus[j][2]) => i = j

C23_LedgerWinsInMerge ==
    [][\A p \in Processes :
          (retrain[p].pc = "loading" /\ retrain'[p].pc = "training")
              => /\ MergedKeysOnce(retrain'[p].corpus)
                 /\ \A r \in ledger :
                       <<r.user_id, r.movie_id, r.rating>>
                           \in Range(retrain'[p].corpus)]_vars

----------------------------------------------------------------------------
\* C24: when a step of a retrain attempt before the export (loading the
\* corpus, reading the ledger, merging, fitting, validating) raises, the
\* attempt ends with a failure result that carries the cause as a string;
\* no step of the attempt up to there, the failing one included, changes
\* the persisted artifact, its backups or the active model.
FailureOf(p, r) ==
    IF p = "server"
    THEN /\ r.op = "POST /admin/retrain"
         /\ r.status = 200
         /\ ~r.success
         /\ r.message[1] = "Error en reentrenamiento"
         /\ r.message[2] \in {"loading raised", "training raised"}
    ELSE /\ r.op = "check_and_retrain"
         /\ r.outcome = "failure"
         /\ r.error \in {"loading raised", "training raised"}

C24_FailureBeforeExport ==
    [][\A p \in Processes :
          /\ (retrain[p].pc \in {"loading", "training"}
                 /\ retrain'[p].pc = "idle")
               => (FailureOf(p, resp') /\ UNCHANGED <<disk, recommender>>)
          /\ (retrain[p] # retrain'[p]
                 /\ retrain'[p].pc \in {"loading", "training", "trained"})
               => UNCHANGED <<disk, recommender>>]_vars

\* the server's attempt failed in training while the artifact and the
\* active model are those of the deployment
C24_Witness ==
    /\ FailureOf("server", resp)
    /\ resp.message[2] = "training raised"
    /\ retrain["server"] = NotRunning
    /\ disk.model = Pickle(Artifact(TrainsetSmall, SvdSmall, Catalog), None)
    /\ recommender = Artifact(TrainsetSmall, SvdSmall, Catalog)

----------------------------------------------------------------------------
\* C25: the artifact is replaced atomically: whoever reads the artifact path
\* (a model load, check_retrain_needed) finds the whole previous artifact or
\* the whole new one, never a partly written file, also when the export
\* stops part way.
C25_AtomicReplace ==
    /\ disk.model # Truncated
    /\ resp.op = "check_retrain_needed" => ~resp.raised

----------------------------------------------------------------------------
\* C26: an export with backup enabled writes the first byte of the new
\* artifact only when a backup file holds a whole copy of the artifact it
\* is about to replace, and the backup it made keeps its content until the
\* export has completed.
C26_BackupBeforeWrite ==
    [][\A p \in Processes :
          /\ (retrain[p].pc = "backed_up" /\ retrain'[p].pc = "writing")
               => /\ \E b \in disk.backups :
                        /\ b.name = retrain[p].backup_path.name
                        /\ b.content # Truncated
                  /\ disk.model # Truncated
                        => \E b \in disk.backups : b.content = disk.model
          /\ retrain[p].pc \in {"backed_up", "writing"}
               => \E b \in disk.backups, c \in disk'.backups :
                     /\ b.name = retrain[p].backup_path.name
                     /\ c = b]_vars

----------------------------------------------------------------------------
\* C27: a request served around a retraining swap is answered from one
\* model generation: the active model is at all times a whole generation
\* (a trainset together with the model fitted on it, never parts of two),
\* and every part of a predict or similar-movies answer is computed from it.
WholeGeneration(rec) ==
    /\ rec = Artifact(rec.trainset, rec.model, Catalog)
    /\ rec \in Artifacts \/ rec.model = fit(rec.trainset)

AnsweredFrom(rec, r) ==
    IF r.op = "POST /predict"
    THEN /\ r.body.movie_title = get_movie_title(rec, r.movie_id)
         /\ r.body.predicted_rating
               = Round3(predict_rating(rec, r.user_id, r.movie_id))
    ELSE /\ r.body.reference_movie_title = get_movie_title(rec, r.movie_id)
         /\ \A k \in 1 .. Len(r.body.similar_movies) :
               LET item == r.body.similar_movies[k]
                   found == get_similar_movies(rec, r.movie_id,
                                               Len(r.body.similar_movies), {})
               IN /\ Len(found) = Len(r.body.similar_movies)
                  /\ item.movie_id = found[k][1]
                  /\ item.similarity_score = Round3(found[k][2])
                  /\ item.title = get_movie_title(rec, item.movie_id)

C27_OneGeneration ==
    /\ recommender # None => WholeGeneration(recommender)
    /\ (resp.op \in {"POST /predict", "POST /similar-movies"}
          /\ resp.status = 200)
         => AnsweredFrom(recommender, resp)

\* a prediction answered from the retrained model while the scheduler is
\* writing the next artifact
C27_Witness ==
    /\ resp.op = "POST /predict"
    /\ resp.status = 200
    /\ recommender \notin Artifacts
    /\ retrain["scheduler"].pc = "writing"

----------------------------------------------------------------------------
\* C28: retraining does not block serving: while a retrain triggered through
\* POST /admin/retrain is training or validating, the server can answer a
\* predict request.
C28_ServingNotBlocked ==
    retrain["server"].pc = "training"
        => ENABLED (\E u \in UserIds, m \in MovieIds : ServePredict(u, m))

----------------------------------------------------------------------------
\* C29: retraining is single-flight over both triggers: at most one retrain
\* attempt, of the server or of the scheduler, is in progress at a time.
C29_SingleFlight ==
    Cardinality({p \in Processes : retrain[p].pc # "idle"}) <= 1

----------------------------------------------------------------------------
\* C30: for a user absent from the model, get_recommendations_for_new_user
\* called with the ratings the ledger holds for the user (a non-empty
\* mapping) and n returns the items and scores, in order, that
\* get_recommendations_from_db returns for that user and n, and the call
\* leaves the ledger as it was.
C30_NewUserMatchesLedgerPath ==
    [][resp'.op = "get_recommendations_for_new_user"
          => /\ ledger' = ledger
             /\ resp'.result
                  = [k \in 1 .. Len(get_recommendations_from_db(ledger,
                                       recommender, resp'.user_id, resp'.n,
                                       TRUE, TRUE)) |->
                        <<get_recommendations_from_db(ledger, recommender,
                              resp'.user_id, resp'.n, TRUE, TRUE)[k][1],
                          get_recommendations_from_db(ledger, recommender,
                              resp'.user_id, resp'.n, TRUE, TRUE)[k][2]>>]]_vars

----------------------------------------------------------------------------
\* C31: after a rating is stored for a user identifier, a User record with
\* that identifier exists, and no operation removes a User record.
RatingStored(r) ==
    \/ r.op = "create_rating"
    \/ r.op = "POST /ratings/add" /\ r.status = 200

C31_UserCreatedOnRating ==
    [][/\ RatingStored(resp') => \E u \in users' : u.user_id = resp'.user_id
       /\ users \subseteq users']_vars

----------------------------------------------------------------------------
\* C32: the database-stats report gives total_ratings equal to the number
\* of ledger records, total_users equal to the number of distinct user
\* identifiers with at least one ledger record, and total_movies_rated
\* equal to the number of distinct item identifiers in the ledger.
C32_StatsMatchLedger ==
    resp.op = "GET /database/stats"
        => /\ resp.body.total_ratings = Cardinality(ledger)
           /\ resp.body.total_users = Cardinality({r.user_id : r \in ledger})
           /\ resp.body.total_movies_rated
                 = Cardinality({r.movie_id : r \in ledger})

----------------------------------------------------------------------------
\* C33: a rating created or updated after a retrain export has completed is
\* counted as new by check_retrain_needed (its stamp is later than the
\* retrain time the artifact records), whatever the offset between the UTC
\* clock that stamps ledger records and the local clock that stamps the
\* artifact.
ExportCompleted ==
    /\ disk.model # None
    /\ disk.model # Truncated
    /\ disk.model.retrained_at # None
    /\ \A p \in Processes : retrain[p].pc # "writing"

C33_CountedWhateverOffset ==
    [][(ExportCompleted /\ resp'.op = "create_rating")
          => resp'.result.timestamp > disk.model.retrained_at.iso]_vars

----------------------------------------------------------------------------
\* C34: when the similarity pass of the cold regime with history has a
\* candidate, the score of each returned candidate is the arithmetic mean of
\* (the user's rating of L times the similarity of L and the candidate)
\* over exactly the liked items L (ledger rating >= 4.0) whose similar list
\* (n = 20) holds the candidate; an item rated below 4.0 contributes nothing.
LikedBy(user_id) == {r \in ledger : r.user_id = user_id /\ r.rating >= 4}

Contributors(user_id, candidate) ==
    {r \in LikedBy(user_id) :
        candidate \in ItemsOf(get_similar_movies(recommender, r.movie_id,
                                                 SimilarPerLiked, {}))}

Contribution(r, candidate) ==
    LET liked == recommender.model.qi[to_inner_iid(recommender.trainset,
                                                   r.movie_id)]
        other == recommender.model.qi[to_inner_iid(recommender.trainset,
                                                   candidate)]
    IN Frac(r.rating * Dot(liked, other), Norm(liked) * Norm(other))

RECURSIVE ContributionSum(_, _)
ContributionSum(rows, candidate) ==
    IF rows = {} THEN FracOfInt(0)
    ELSE LET r == CHOOSE x \in rows : TRUE
         IN FracAdd(Contribution(r, candidate),
                    ContributionSum(rows \ {r}, candidate))

ContributionMean(user_id, candidate) ==
    LET total == ContributionSum(Contributors(user_id, candidate), candidate)
    IN Frac(total[1],
            total[2] * Cardinality(Contributors(user_id, candidate)))

C34_MeanOfContributions ==
    (IsRecommend /\ resp.use_hybrid /\ ~InFactorModel(resp.user_id)
       /\ HistoryCount(resp.user_id) >= 1 /\ Candidates(resp.user_id) # {})
        => \A k \in 1 .. Len(resp.result) :
              /\ Contributors(resp.user_id, resp.result[k][1]) # {}
              /\ resp.result[k][2]
                    = ContributionMean(resp.user_id, resp.result[k][1])

\* a candidate scored from two liked items whose contributions differ
C34_Witness ==
    /\ IsRecommend /\ resp.use_hybrid /\ ~InFactorModel(resp.user_id)
    /\ \E k \in 1 .. Len(resp.result) :
          /\ Cardinality(Contributors(resp.user_id, resp.result[k][1])) = 2
          /\ \E r, q \in Contributors(resp.user_id, resp.result[k][1]) :
                Contribution(r, resp.result[k][1])
                    # Contribution(q, resp.result[k][1])

----------------------------------------------------------------------------
\* C35: a delete request for a (user, item) pair without a ledger record is
\* answered with status 404, not with the status 400 of the endpoint's
\* generic error, and leaves the ledger as it was.
C35_MissingPairNotFound ==
    [][(resp'.op = "DELETE /ratings/delete"
          /\ RowsOf(ledger, resp'.user_id, resp'.movie_id) = {})
          => (resp'.status = 404 /\ resp'.status # 400 /\ ledger' = ledger)]_vars

----------------------------------------------------------------------------
\* C36: the server's active model is only ever replaced by a model wholly
\* loaded from the artifact file; when the reload after a successful export
\* raises, the previous active model stays in place and the server goes on
\* answering requests from it.
ReloadFailed(r) ==
    /\ r.op = "POST /admin/retrain"
    /\ r.status = 500
    /\ r.raised_by = "MovieRecommenderDB"

C36_ReloadKeepsPrevious ==
    [][/\ recommender' # recommender
            => /\ disk.model # None
               /\ disk.model # Truncated
               /\ recommender' = disk.model.data
       /\ ReloadFailed(resp')
            => /\ recommender' = recommender
               /\ recommender' # None
               /\ retrain'["server"].pc = "idle"
       /\ (resp'.op = "POST /predict" /\ resp'.status = 200)
            => AnsweredFrom(recommender, resp')]_vars

\* the reload has failed on a file the scheduler is writing, and the model
\* of the deployment is still the active one
C36_Witness ==
    /\ ReloadFailed(resp)
    /\ disk.model = Truncated
    /\ recommender = Artifact(TrainsetSmall, SvdSmall, Catalog)
    /\ EventLoopFree

----------------------------------------------------------------------------
\* C37: when a retrain attempt reports success, be it triggered through
\* POST /admin/retrain or by the scheduler's check_and_retrain, the model
\* the server answers from is the one the artifact file now holds.
ReportsSuccess(r) ==
    \/ r.op = "POST /admin/retrain" /\ r.status = 200 /\ r.success
    \/ r.op = "check_and_retrain" /\ r.outcome = "success"

C37_ServingIsPersisted ==
    [][ReportsSuccess(resp')
          => /\ disk'.model # Truncated
             /\ recommender' = disk'.model.data]_vars

----------------------------------------------------------------------------
\* C38: when a retrain reports success, every user with at least one rating
\* in the ledger snapshot the retrain read has a row in the model it
\* persisted, so that a recommend request answered from that model takes
\* the user as KNOWN.
LedgerSnapshot(corpus) ==
    SubSeq(corpus, Len(load_original_movielens_data) + 1, Len(corpus))

C38_LedgerUsersKnown ==
    [][\A p \in Processes :
          (ReportsSuccess(resp') /\ retrain[p].pc = "exported"
              /\ retrain'[p].pc = "idle")
              => \A k \in 1 .. Len(LedgerSnapshot(retrain[p].corpus)) :
                    Regime(ledger, retrain[p].fitted,
                           LedgerSnapshot(retrain[p].corpus)[k][1], TRUE)
                        = "KNOWN"]_vars

----------------------------------------------------------------------------
\* C39: for a user the Factor Model knows, neither get_recommendations_from_db
\* nor get_top_n_recommendations, called with exclude_rated=True, returns an
\* item the user rated in the model's training corpus.
TrainingRated(user_id) ==
    {to_raw_iid(recommender.trainset, pair[1]) :
        pair \in Range(recommender.trainset.ur[
                          to_inner_uid(recommender.trainset, user_id)])}

C39_TrainingRatedExcluded ==
    (resp.op \in {"get_recommendations_from_db", "get_top_n_recommendations"}
       /\ resp.exclude_rated /\ InFactorModel(resp.user_id))
        => ItemsOf(resp.result) \cap TrainingRated(resp.user_id) = {}

----------------------------------------------------------------------------
\* C40: every retrain attempt that a trigger starts ends, its process going
\* back to idle, provided each step of retrain_model terminates or raises;
\* the step that ends a trigger reports exactly one of not-needed, success
\* and failure.
ReportsFailure(r) ==
    \/ /\ r.op = "POST /admin/retrain"
       /\ \/ r.status = 500
          \/ /\ r.status = 200
             /\ ~r.success
             /\ r.message[1] = "Error en reentrenamiento"
    \/ /\ r.op = "check_and_retrain"
       /\ r.outcome \in {"failure", "error"}

ExactlyOneOutcome(r) ==
    /\ NotNeeded(r) \/ ReportsSuccess(r) \/ ReportsFailure(r)
    /\ ~(NotNeeded(r) /\ ReportsSuccess(r))
    /\ ~(NotNeeded(r) /\ ReportsFailure(r))
    /\ ~(ReportsSuccess(r) /\ ReportsFailure(r))

TriggerEnds(p) ==
    /\ retrain'[p].pc = "idle"
    /\ \/ retrain[p].pc # "idle"
       \/ /\ p = "server"
          /\ resp'.op = "POST /admin/retrain"
          /\ resp'.status # 422
       \/ /\ p = "scheduler"
          /\ resp'.op = "check_and_retrain"

C40_TriggerEndsIdle ==
    /\ \A p \in Processes :
          (retrain[p].pc # "idle") ~> (retrain[p].pc = "idle")
    /\ [][\A p \in Processes : TriggerEnds(p) => ExactlyOneOutcome(resp')]_vars

\* both attempts have ended, the scheduler's last and with success, and the
\* file holds a retrained model
C40_Witness ==
    /\ resp.op = "check_and_retrain"
    /\ resp.outcome = "success"
    /\ \A p \in Processes : retrain[p].pc = "idle"
    /\ disk.model # Truncated
    /\ disk.model.retrained_at # None
    /\ recommender # Artifact(TrainsetSmall, SvdSmall, Catalog)

====
